---------------------------- MODULE Spec2Model ----------------------------
(***************************************************************************)
(* A model of the record list engine of src/src/components/ListView.tsx:   *)
(* the filter predicate, the type-aware sort, pagination, the selection    *)
(* set, the column resize session and the two durable records kept in      *)
(* localStorage ('deals-column-widths' and 'deals-filters').               *)
(*                                                                         *)
(* Text is a sequence of one-character strings, an optional field is the   *)
(* empty set (undefined) or a singleton set holding its value.             *)
(***************************************************************************)
EXTENDS Integers, Sequences, FiniteSets, TLC

(***************************************************************************)
(* Bounds of the model.                                                    *)
(***************************************************************************)
\* the largest record collection the caller supplies
MaxDeals == 26
\* the farthest pointer position of a resize gesture, in pointer steps
MaxPointer == 2
\* the longest input sequence handed to the sort on its own
MaxSortLen == 4

(***************************************************************************)
(* Optional values: undefined, or a present value.                         *)
(***************************************************************************)
None == {}
Some(v) == {v}
IsSome(o) == o # {}
Val(o) == CHOOSE x \in o : TRUE

(***************************************************************************)
(* Text.                                                                   *)
(***************************************************************************)
\* String.prototype.toLowerCase on one character
LowerChar(c) == IF c = "A" THEN "a" ELSE IF c = "B" THEN "b" ELSE c

toLowerCase(s) == [i \in 1..Len(s) |-> LowerChar(s[i])]

\* String.prototype.includes
includes(hay, needle) ==
    \E i \in 0..(Len(hay) - Len(needle)) :
        SubSeq(hay, i + 1, i + Len(needle)) = needle

\* the UTF-16 code unit of a character of the model's alphabet
CharCode(c) ==
    CASE c = " " -> 32
      [] c = "0" -> 48 [] c = "1" -> 49 [] c = "2" -> 50 [] c = "3" -> 51
      [] c = "4" -> 52 [] c = "5" -> 53 [] c = "6" -> 54 [] c = "7" -> 55
      [] c = "8" -> 56 [] c = "9" -> 57
      [] c = "A" -> 65 [] c = "B" -> 66
      [] c = "a" -> 97 [] c = "b" -> 98
      [] OTHER -> 0

\* the < of two JavaScript strings: lexicographic by code unit
RECURSIVE StrLess(_, _)
StrLess(s, t) ==
    IF t = <<>> THEN FALSE
    ELSE IF s = <<>> THEN TRUE
    ELSE IF CharCode(Head(s)) < CharCode(Head(t)) THEN TRUE
    ELSE IF CharCode(Head(s)) > CharCode(Head(t)) THEN FALSE
    ELSE StrLess(Tail(s), Tail(t))

DigitChar(d) ==
    CASE d = 0 -> "0" [] d = 1 -> "1" [] d = 2 -> "2" [] d = 3 -> "3"
      [] d = 4 -> "4" [] d = 5 -> "5" [] d = 6 -> "6" [] d = 7 -> "7"
      [] d = 8 -> "8" [] OTHER -> "9"

\* String(n) for a non-negative integer n
RECURSIVE NumToString(_)
NumToString(n) ==
    IF n < 10 THEN <<DigitChar(n)>>
    ELSE Append(NumToString(n \div 10), DigitChar(n % 10))

\* Array.prototype.join(' ') of a list of strings
RECURSIVE JoinSpace(_)
JoinSpace(parts) ==
    IF parts = <<>> THEN <<>>
    ELSE IF Len(parts) = 1 THEN parts[1]
    ELSE parts[1] \o <<" ">> \o JoinSpace(Tail(parts))

\* Array.prototype.filter(Boolean) of a list of strings: '' is falsy
RECURSIVE FilterBoolean(_)
FilterBoolean(parts) ==
    IF parts = <<>> THEN <<>>
    ELSE IF Head(parts) = <<>> THEN FilterBoolean(Tail(parts))
    ELSE <<Head(parts)>> \o FilterBoolean(Tail(parts))

(***************************************************************************)
(* The filter predicate of filteredAndSortedDeals.                         *)
(***************************************************************************)
\* x || '' for an optional string
OrEmpty(o) == IF IsSome(o) THEN Val(o) ELSE <<>>

\* String(x || '') for an optional number: undefined and 0 are both falsy
StringOrEmpty(o) ==
    IF IsSome(o) /\ Val(o) # 0 THEN NumToString(Val(o)) ELSE <<>>

\* a missing number taken as larger than every value instead of as 0
OrLargest(o) == IF IsSome(o) THEN Val(o) ELSE 1000

\* x || 0 for an optional number
OrZero(o) == IF IsSome(o) THEN Val(o) ELSE 0

allSearchTerms(term, f) ==
    toLowerCase(JoinSpace(FilterBoolean(<<term, f.searchTerm>>)))

\* field?.toLowerCase().includes(t)
FieldIncludes(o, t) == IsSome(o) /\ includes(toLowerCase(Val(o)), t)

matchesSearch(deal, term, f) ==
    LET t == allSearchTerms(term, f) IN
    \/ t = <<>>
    \/ FieldIncludes(deal.deal_name, t)
    \/ FieldIncludes(deal.project_name, t)
    \/ FieldIncludes(deal.lead_name, t)
    \/ FieldIncludes(deal.customer_name, t)
    \/ FieldIncludes(deal.region, t)

ALL == <<"a", "l", "l">>

matchesLeadOwnerDropdown(deal, owner) ==
    owner = ALL \/ deal.lead_owner = Some(owner)

matchesStages(deal, f) ==
    f.stages = {} \/ (IsSome(deal.stage) /\ Val(deal.stage) \in f.stages)

\* the region test without the check for an empty allowed-set
matchesRegionsWhenListed(deal, f) == OrEmpty(deal.region) \in f.regions

matchesRegions(deal, f) ==
    f.regions = {} \/ OrEmpty(deal.region) \in f.regions

matchesLeadOwners(deal, f) ==
    f.leadOwners = {} \/ OrEmpty(deal.lead_owner) \in f.leadOwners

matchesPriorities(deal, f) ==
    f.priorities = {} \/ StringOrEmpty(deal.priority) \in f.priorities

matchesProbabilities(deal, f) ==
    f.probabilities = {} \/ StringOrEmpty(deal.probability) \in f.probabilities

matchesHandoffStatuses(deal, f) ==
    f.handoffStatuses = {} \/ OrEmpty(deal.handoff_status) \in f.handoffStatuses

matchesProbabilityRange(deal, f) ==
    LET dealProbability == OrZero(deal.probability) IN
    dealProbability >= f.probabilityRange[1] /\ dealProbability <= f.probabilityRange[2]

DealPasses(deal, term, owner, f) ==
    /\ matchesSearch(deal, term, f)
    /\ matchesLeadOwnerDropdown(deal, owner)
    /\ matchesStages(deal, f)
    /\ matchesRegions(deal, f)
    /\ matchesLeadOwners(deal, f)
    /\ matchesPriorities(deal, f)
    /\ matchesProbabilities(deal, f)
    /\ matchesHandoffStatuses(deal, f)
    /\ matchesProbabilityRange(deal, f)

\* a filter that puts each passing record before the ones found so far
RECURSIVE FilterDealsNewestFirst(_, _, _, _)
FilterDealsNewestFirst(ds, term, owner, f) ==
    IF ds = <<>> THEN <<>>
    ELSE IF DealPasses(Head(ds), term, owner, f)
         THEN FilterDealsNewestFirst(Tail(ds), term, owner, f) \o <<Head(ds)>>
         ELSE FilterDealsNewestFirst(Tail(ds), term, owner, f)

\* Array.prototype.filter with the predicate above
RECURSIVE FilterDeals(_, _, _, _)
FilterDeals(ds, term, owner, f) ==
    IF ds = <<>> THEN <<>>
    ELSE IF DealPasses(Head(ds), term, owner, f)
         THEN <<Head(ds)>> \o FilterDeals(Tail(ds), term, owner, f)
         ELSE FilterDeals(Tail(ds), term, owner, f)

(***************************************************************************)
(* The comparator of filteredAndSortedDeals and Array.prototype.sort.      *)
(***************************************************************************)
NumericSortFields ==
    {"priority", "probability", "project_duration",
     "total_contract_value", "total_revenue"}

DateSortFields ==
    {"expected_closing_date", "start_date", "end_date", "created_at",
     "modified_at", "proposal_due_date"}

\* new Date(s).valueOf() for a date string s: its timestamp, or NaN
DateKey(s) ==
    IF s.valid THEN [kind |-> "num", n |-> s.ts, s |-> <<>>]
    ELSE [kind |-> "nan", n |-> 0, s |-> <<>>]

\* aValue / bValue: the value the comparator compares for a record
SortKey(deal, by) ==
    IF by \in NumericSortFields
      THEN [kind |-> "num", n |-> OrZero(deal[by]), s |-> <<>>]
    ELSE IF by \in DateSortFields
      THEN IF IsSome(deal[by]) THEN DateKey(Val(deal[by]))
           ELSE [kind |-> "num", n |-> 0, s |-> <<>>]
    ELSE [kind |-> "str", n |-> 0, s |-> toLowerCase(OrEmpty(deal[by]))]

\* aValue < bValue: every comparison with NaN is false
KeyLess(x, y) ==
    IF x.kind = "nan" \/ y.kind = "nan" THEN FALSE
    ELSE IF x.kind = "str" THEN StrLess(x.s, y.s)
    ELSE x.n < y.n

\* the value the comparator returns for two keys
KeyCompare(x, y, order) ==
    IF order = "asc"
      THEN IF KeyLess(x, y) THEN -1 ELSE IF KeyLess(y, x) THEN 1 ELSE 0
      ELSE IF KeyLess(y, x) THEN -1 ELSE IF KeyLess(x, y) THEN 1 ELSE 0

comparator(a, b, by, order) ==
    KeyCompare(SortKey(a, by), SortKey(b, by), order)

\* ECMAScript's "consistent comparator" over the values being sorted; the
\* comparator reads a record only through its key
ConsistentComparator(ds, by, order) ==
    LET K == {SortKey(ds[i], by) : i \in DOMAIN ds}
        c(x, y) == KeyCompare(x, y, order)
    IN  \A x \in K : \A y \in K :
          /\ c(x, x) = 0
          /\ (c(x, y) = 0 => c(y, x) = 0)
          /\ \A z \in K :
               /\ (c(x, y) = 0 /\ c(y, z) = 0 => c(x, z) = 0)
               /\ (c(x, y) < 0 /\ c(y, z) < 0 => c(x, z) < 0)
               /\ (c(x, y) > 0 /\ c(y, z) > 0 => c(x, z) > 0)

\* x placed after every element that does not compare greater than it
RECURSIVE InsertSorted(_, _, _, _)
InsertSorted(out, x, by, order) ==
    IF out = <<>> THEN <<x>>
    ELSE IF comparator(Head(out), x, by, order) > 0 THEN <<x>> \o out
    ELSE <<Head(out)>> \o InsertSorted(Tail(out), x, by, order)

\* the order a stable sort gives with a consistent comparator
RECURSIVE StableSort(_, _, _)
StableSort(ds, by, order) ==
    IF ds = <<>> THEN <<>>
    ELSE InsertSorted(StableSort(SubSeq(ds, 1, Len(ds) - 1), by, order),
                      ds[Len(ds)], by, order)

Rearrangements(ds) ==
    {[i \in DOMAIN ds |-> ds[p[i]]] : p \in Permutations(DOMAIN ds)}

\* Array.prototype.sort(comparefn): stable when the comparator is
\* consistent, otherwise an implementation-defined rearrangement
SortOutcomes(ds, by, order) ==
    IF ConsistentComparator(ds, by, order) THEN {StableSort(ds, by, order)}
    ELSE Rearrangements(ds)

(***************************************************************************)
(* The list view: state and derived values.                                *)
(***************************************************************************)
VARIABLES
    \* the collection the caller supplies, and its optional stage filter
    deals, initialStageFilter,
    \* component state of ListView
    searchTerm, leadOwnerFilter, filters, sortBy, sortOrder,
    selectedDeals, currentPage, deleteDialogOpen, dealToDelete,
    \* localStorage 'deals-filters'
    storedFilters,
    \* "constructed" (before the mount effects), "mounted" or "crashed"
    phase,
    \* the filter state and search term the previous session ended with
    sessionBefore,
    \* the last operation that ran
    lastOp,
    \* filteredAndSortedDeals as the last render computed it
    view

listVars ==
    <<deals, initialStageFilter, searchTerm, leadOwnerFilter, filters, sortBy,
      sortOrder, selectedDeals, currentPage, deleteDialogOpen, dealToDelete,
      storedFilters, phase, sessionBefore, lastOp, view>>

itemsPerPage == 25

\* the filter state with no constraint (clearAllFilters)
ClearedFilters ==
    [stages |-> {}, regions |-> {}, leadOwners |-> {}, priorities |-> {},
     probabilities |-> {}, handoffStatuses |-> {}, searchTerm |-> <<>>,
     probabilityRange |-> <<0, 100>>]

\* the initial value of the filters state
InitialFilters(stage) ==
    [ClearedFilters EXCEPT !.stages = IF stage # ALL THEN {stage} ELSE {}]

\* the records of the model: record i of the caller's collection
DealOf(i) ==
    [id |-> i,
     deal_name |-> IF i % 3 = 1 THEN Some(<<"a">>)
                   ELSE IF i % 3 = 2 THEN Some(<<"a", " ", "a">>) ELSE None,
     project_name |-> IF i % 2 = 0 THEN Some(<<"A", "b">>) ELSE Some(<<"b">>),
     lead_name |-> None,
     customer_name |-> IF i % 5 = 0 THEN Some(<<"B">>) ELSE None,
     region |-> IF i % 4 = 0 THEN Some(<<"b">>) ELSE None,
     lead_owner |-> IF i % 2 = 0 THEN Some(<<"a">>) ELSE Some(<<"b">>),
     stage |-> IF i % 3 = 0 THEN Some(<<"a">>) ELSE Some(<<"b">>),
     priority |-> IF i % 3 = 0 THEN None ELSE Some(i % 3),
     probability |-> IF i % 4 = 0 THEN Some(0)
                     ELSE IF i % 4 = 1 THEN Some(50)
                     ELSE IF i % 4 = 2 THEN Some(100) ELSE None,
     handoff_status |-> IF i % 2 = 0 THEN Some(<<"a">>) ELSE None,
     total_contract_value |-> IF i % 3 = 0 THEN None ELSE Some(50 * (i % 3)),
     expected_closing_date |-> IF i % 2 = 0 THEN None
                               ELSE Some([valid |-> TRUE, ts |-> i % 4]),
     modified_at |-> Some([valid |-> TRUE, ts |-> i % 3])]

\* the first n records
Collection(n) == [i \in 1..n |-> DealOf(i)]

\* the sizes of the collections the caller supplies
CollectionSizes == {0, 1, itemsPerPage, MaxDeals}

\* the sizes of the collections the selection is exercised on
SelectSizes == {itemsPerPage, MaxDeals}

\* the records a row action is tried on
TouchIds == {1, itemsPerPage + 1}

Ids(ds) == {ds[i].id : i \in DOMAIN ds}

RECURSIVE Without(_, _)
Without(ds, ids) ==
    IF ds = <<>> THEN <<>>
    ELSE IF Head(ds).id \in ids THEN Without(Tail(ds), ids)
    ELSE <<Head(ds)>> \o Without(Tail(ds), ids)

\* availableOptions
availableRegions == {Val(deals[i].region) : i \in {j \in DOMAIN deals : IsSome(deals[j].region) /\ Val(deals[j].region) # <<>>}}
availableLeadOwners == {Val(deals[i].lead_owner) : i \in {j \in DOMAIN deals : IsSome(deals[j].lead_owner) /\ Val(deals[j].lead_owner) # <<>>}}
availablePriorities == {NumToString(Val(deals[i].priority)) : i \in {j \in DOMAIN deals : IsSome(deals[j].priority)}}
availableProbabilities == {NumToString(Val(deals[i].probability)) : i \in {j \in DOMAIN deals : IsSome(deals[j].probability)}}
availableHandoffStatuses == {Val(deals[i].handoff_status) : i \in {j \in DOMAIN deals : IsSome(deals[j].handoff_status) /\ Val(deals[j].handoff_status) # <<>>}}

\* what a render computes from the state it renders
filteredAndSortedDeals == view

\* the render after a state change: the filter, then the sort
Render ==
    \E filtered \in {FilterDeals(deals', searchTerm', leadOwnerFilter', filters')} :
      view' \in SortOutcomes(filtered, sortBy', sortOrder')

\* Math.ceil(n / itemsPerPage)
TotalPagesOf(n) == (n + itemsPerPage - 1) \div itemsPerPage

totalPages == TotalPagesOf(Len(filteredAndSortedDeals))

startIndex == (currentPage - 1) * itemsPerPage

\* a slice that takes the record at index to as well
SliceThrough(ds, from, to) ==
    SubSeq(ds, from + 1, IF to + 1 < Len(ds) THEN to + 1 ELSE Len(ds))

\* Array.prototype.slice(from, to) with 0 <= from
Slice(ds, from, to) ==
    SubSeq(ds, from + 1, IF to < Len(ds) THEN to ELSE Len(ds))

paginatedDeals == Slice(filteredAndSortedDeals, startIndex, startIndex + itemsPerPage)

\* the checked state of the header checkbox
HeaderChecked ==
    Cardinality(selectedDeals) = Len(paginatedDeals) /\ Len(paginatedDeals) > 0

(***************************************************************************)
(* The column resize session and the width state.                          *)
(***************************************************************************)
VARIABLES
    \* component state of the resize gesture
    columnWidths, isResizing, startX, startWidth,
    \* the state the last render closed its handlers over
    rendered,
    \* the document-level mousemove / mouseup listeners: None, or the
    \* render they were registered by
    listener,
    \* localStorage 'deals-column-widths'
    storedWidths,
    \* e.clientX of the last mousemove event the document listener received
    pointerX

resizeVars ==
    <<columnWidths, isResizing, startX, startWidth, rendered, listener,
      storedWidths, pointerX>>

VARIABLES
    \* the result of the filter or of the sort applied on its own
    output,
    \* the two documents the mount effects read from localStorage
    loaded,
    \* every inline edit submitted so far: its arguments, the calls made to
    \* onUpdateDeal, how the call settled and the toasts shown for it
    edits,
    \* currentPage before the last operation
    pageBefore,
    \* the selection operations that ran last, at most two, each with the
    \* selection it started from; empty after any other operation
    recent,
    \* what the last operation did outside the component: its calls of
    \* onDeleteDeals and its toasts, in order
    effects

VARIABLES
    \* the request the notification handler was called with, and the
    \* environment variables it reads
    req, env,
    \* the handler's position: the step it runs next, or "done"
    pc,
    \* the steps the handler has run, each with its outcome
    trace,
    \* the responses the handler has returned
    responses

notifyVars == <<req, env, pc, trace, responses>>

VARIABLES
    \* component state of the calculator
    display, previousValue, operator, waitingForOperand

calcVars == <<display, previousValue, operator, waitingForOperand>>

otherVars == <<resizeVars, output, loaded, edits, notifyVars, calcVars>>

vars ==
    <<listVars, resizeVars, output, loaded, edits, pageBefore, recent,
      effects, notifyVars, calcVars>>

\* no request has reached the notification handler
NotifyIdle ==
    /\ req = [method |-> "none", body |-> [json |-> FALSE, fields |-> {}]]
    /\ env = [sender |-> FALSE, credentials |-> FALSE]
    /\ pc = "idle"
    /\ trace = <<>>
    /\ responses = <<>>

\* the calculator's state as the useState initialisers give it
CalcConstructed ==
    /\ display = <<"0">>
    /\ previousValue = None
    /\ operator = None
    /\ waitingForOperand = FALSE

\* the last two entries of a trail after e is added
Latest(trail, e) ==
    IF Len(trail) = 2 THEN <<trail[2], e>> ELSE Append(trail, e)

\* the initial value of the columnWidths state
DefaultColumnWidths ==
    [project_name |-> 200, customer_name |-> 150, lead_name |-> 150,
     lead_owner |-> 140, stage |-> 120, priority |-> 100,
     total_contract_value |-> 120, probability |-> 120,
     expected_closing_date |-> 140, region |-> 120, project_duration |-> 120,
     start_date |-> 120, end_date |-> 120, proposal_due_date |-> 140,
     total_revenue |-> 120]

(***************************************************************************)
(* JSON documents in localStorage.  A document is absent (getItem gives    *)
(* null), text that is not JSON, or the JSON value null, a number or an    *)
(* object; an object lists the keys it has.                                *)
(***************************************************************************)
FilterKeys ==
    {"stages", "regions", "leadOwners", "priorities", "probabilities",
     "handoffStatuses", "searchTerm", "probabilityRange"}

FilterDoc(kind, has, val) == [kind |-> kind, has |-> has, val |-> val]

\* JSON.stringify of a filter state
StringifyFilters(f) == FilterDoc("object", FilterKeys, f)

WidthDoc(kind, map) == [kind |-> kind, map |-> map]

NoWidths == [f \in {} |-> 0]

\* JSON.stringify of a columnWidths value
StringifyWidths(w) ==
    IF w.kind = "object" THEN WidthDoc("object", w.map) ELSE WidthDoc(w.kind, NoWidths)

\* JSON.parse succeeds on the document
Parses(doc) == doc.kind \in {"null", "number", "object"}

\* if (saved): getItem gave a non-empty string
Saved(doc) == doc.kind # "absent"

\* parsed.searchTerm || "" ; reading a property of null throws
ParsedSearchTerm(doc) ==
    IF doc.kind = "object" /\ "searchTerm" \in doc.has THEN doc.val.searchTerm
    ELSE <<>>

\* rendering reads filters.stages.length ... filters.probabilityRange[0]
\* (getActiveFiltersCount): a TypeError when filters is null or lacks one
FiltersRenderThrows(doc) ==
    \/ doc.kind \in {"null", "number"}
    \/ doc.kind = "object" /\ ~((FilterKeys \ {"searchTerm"}) \subseteq doc.has)

\* rendering reads columnWidths[column.field]: a TypeError when it is null
WidthsRenderThrows(w) == w.kind = "null"

\* columnWidths[field] || 120
WidthOf(w, field) ==
    IF w.kind = "object" /\ field \in DOMAIN w.map /\ w.map[field] # 0
      THEN w.map[field] ELSE 120

(***************************************************************************)
(* Inputs of the model.                                                    *)
(***************************************************************************)
\* the values of the initialStageFilter prop
StageProps == {ALL, <<"a">>}

\* what the quick search box is set to
SearchTerms == {<<>>, <<"a">>}

\* the columns whose header is clicked
SortColumns == {"probability"}

\* the filter states the advanced filter hands to onFiltersChange: one
\* dimension constrained to one of its available options
FilterChoices ==
    {[ClearedFilters EXCEPT !.stages = {<<"a">>}],
     [ClearedFilters EXCEPT !.searchTerm = <<"b">>]}
    \cup {[ClearedFilters EXCEPT !.probabilities = {p}] : p \in availableProbabilities}

\* what 'deals-filters' holds when a session starts
StoredFilterDocs ==
    {FilterDoc("absent", {}, ClearedFilters),
     FilterDoc("text", {}, ClearedFilters),
     FilterDoc("null", {}, ClearedFilters),
     FilterDoc("number", {}, ClearedFilters),
     FilterDoc("object", {}, ClearedFilters),
     FilterDoc("object", FilterKeys \ {"searchTerm"},
               [ClearedFilters EXCEPT !.stages = {<<"b">>}]),
     StringifyFilters([ClearedFilters EXCEPT !.stages = {<<"b">>}])}

\* what 'deals-column-widths' holds when a session starts
StoredWidthDocs ==
    {WidthDoc("absent", NoWidths),
     WidthDoc("text", NoWidths),
     WidthDoc("null", NoWidths),
     WidthDoc("number", NoWidths),
     WidthDoc("object", NoWidths),
     WidthDoc("object", [f \in {"priority"} |-> 50]),
     WidthDoc("object", [f \in {"custom"} |-> 90]),
     WidthDoc("object", DefaultColumnWidths)}

\* before the mount effects have read localStorage
NothingLoaded ==
    [filters |-> FilterDoc("absent", {}, ClearedFilters),
     widths |-> WidthDoc("absent", NoWidths)]

(***************************************************************************)
(* Effects.                                                                *)
(***************************************************************************)
\* the persist effect: setItem('deals-filters', {...filters, searchTerm})
filtersWithSearch(f, term) == [f EXCEPT !.searchTerm = term]

PersistedFilters(f, term) == StringifyFilters(filtersWithSearch(f, term))

\* the caller's onDeleteDeals: the collection it supplies next
onDeleteDeals(ids) == Without(deals, ids)

\* a call of onDeleteDeals with the ids, as an entry of effects
Called(ids) ==
    [kind |-> "onDeleteDeals", ids |-> ids, title |-> "", description |-> <<>>]

\* toast({ title, description }), as an entry of effects
Toasted(title, description) ==
    [kind |-> "toast", ids |-> {}, title |-> title, description |-> description]

\* the list state as the useState initialisers give it
ListConstructed ==
    /\ searchTerm = <<>>
    /\ leadOwnerFilter = ALL
    /\ filters = InitialFilters(initialStageFilter)
    /\ sortBy = "modified_at"
    /\ sortOrder = "desc"
    /\ selectedDeals = {}
    /\ currentPage = 1
    /\ deleteDialogOpen = FALSE
    /\ dealToDelete = None

\* the first commit's effects and the render that follows them: the stage
\* sync, the two loads from localStorage, the persist effect, the page reset
Mount ==
    /\ phase = "constructed"
    /\ LET loadedF == Saved(storedFilters) /\ Parses(storedFilters)
           loadedW == Saved(storedWidths) /\ Parses(storedWidths)
           newFilters == IF loadedF THEN storedFilters.val ELSE filters
           newTerm == IF loadedF THEN ParsedSearchTerm(storedFilters) ELSE searchTerm
           newWidths == IF loadedW THEN storedWidths ELSE columnWidths
           throws == \/ loadedF /\ FiltersRenderThrows(storedFilters)
                     \/ loadedW /\ WidthsRenderThrows(newWidths)
       IN  IF throws
             THEN /\ phase' = "crashed"
                  /\ storedFilters' = PersistedFilters(filters, searchTerm)
                  /\ UNCHANGED <<filters, searchTerm, columnWidths, rendered>>
             ELSE /\ phase' = "mounted"
                  /\ filters' = newFilters
                  /\ searchTerm' = newTerm
                  /\ columnWidths' = newWidths
                  /\ rendered' = [rendered EXCEPT !.columnWidths = newWidths]
                  /\ storedFilters' = PersistedFilters(newFilters, newTerm)
    /\ loaded' = [filters |-> storedFilters, widths |-> storedWidths]
    /\ currentPage' = 1
    /\ lastOp' = "mount"
    /\ pageBefore' = currentPage
    /\ effects' = <<>>
    /\ recent' = <<>>
    /\ UNCHANGED <<deals, initialStageFilter, leadOwnerFilter, sortBy, sortOrder,
                   selectedDeals, deleteDialogOpen, dealToDelete, sessionBefore,
                   isResizing, startX, startWidth, listener, storedWidths,
                   pointerX,
                   output, edits, notifyVars,
                   calcVars>>
    /\ IF phase' = "crashed" THEN UNCHANGED view ELSE Render

(***************************************************************************)
(* Operations of the list view.                                            *)
(***************************************************************************)
\* the caller supplies another collection
DealsChanged(n) ==
    /\ phase = "mounted"
    /\ deals # Collection(n)
    /\ deals' = Collection(n)
    /\ lastOp' = "deals"
    /\ pageBefore' = currentPage
    /\ effects' = <<>>
    /\ recent' = <<>>
    /\ UNCHANGED <<initialStageFilter, searchTerm, leadOwnerFilter, filters,
                   sortBy, sortOrder, selectedDeals, currentPage,
                   deleteDialogOpen, dealToDelete, storedFilters, phase,
                   sessionBefore, otherVars>>
    /\ Render

\* onFiltersChange with a reset effect that does not depend on filters
SetFiltersWithoutReset(f) ==
    /\ phase = "mounted"
    /\ filters' = f
    /\ storedFilters' = PersistedFilters(f, searchTerm)
    /\ lastOp' = "filters"
    /\ pageBefore' = currentPage
    /\ effects' = <<>>
    /\ recent' = <<>>
    /\ UNCHANGED <<deals, initialStageFilter, searchTerm, leadOwnerFilter,
                   sortBy, sortOrder, selectedDeals, currentPage,
                   deleteDialogOpen, dealToDelete, phase, sessionBefore,
                   otherVars>>
    /\ Render

\* onFiltersChange of the advanced filter, then the persist and reset effects
SetFilters(f) ==
    /\ phase = "mounted"
    /\ filters' = f
    /\ storedFilters' = PersistedFilters(f, searchTerm)
    /\ currentPage' = 1
    /\ lastOp' = "filters"
    /\ pageBefore' = currentPage
    /\ effects' = <<>>
    /\ recent' = <<>>
    /\ UNCHANGED <<deals, initialStageFilter, searchTerm, leadOwnerFilter,
                   sortBy, sortOrder, selectedDeals, deleteDialogOpen,
                   dealToDelete, phase, sessionBefore, otherVars>>
    /\ Render

\* onChange of the quick search box, then the persist and reset effects
SetSearchTerm(t) ==
    /\ phase = "mounted"
    /\ t # searchTerm
    /\ searchTerm' = t
    /\ storedFilters' = PersistedFilters(filters, t)
    /\ currentPage' = 1
    /\ lastOp' = "search"
    /\ pageBefore' = currentPage
    /\ effects' = <<>>
    /\ recent' = <<>>
    /\ UNCHANGED <<deals, initialStageFilter, leadOwnerFilter, filters,
                   sortBy, sortOrder, selectedDeals, deleteDialogOpen,
                   dealToDelete, phase, sessionBefore, otherVars>>
    /\ Render

\* onValueChange of the lead owner dropdown, then the reset effect
SetLeadOwnerFilter(o) ==
    /\ phase = "mounted"
    /\ o # leadOwnerFilter
    /\ leadOwnerFilter' = o
    /\ currentPage' = 1
    /\ lastOp' = "owner"
    /\ pageBefore' = currentPage
    /\ effects' = <<>>
    /\ recent' = <<>>
    /\ UNCHANGED <<deals, initialStageFilter, searchTerm, filters, sortBy,
                   sortOrder, selectedDeals, deleteDialogOpen, dealToDelete,
                   storedFilters, phase, sessionBefore, otherVars>>
    /\ Render

getActiveFiltersCount ==
    (IF filters.stages # {} THEN 1 ELSE 0)
    + (IF filters.regions # {} THEN 1 ELSE 0)
    + (IF filters.leadOwners # {} THEN 1 ELSE 0)
    + (IF filters.priorities # {} THEN 1 ELSE 0)
    + (IF filters.probabilities # {} THEN 1 ELSE 0)
    + (IF filters.handoffStatuses # {} THEN 1 ELSE 0)
    + (IF filters.searchTerm # <<>> THEN 1 ELSE 0)
    + (IF filters.probabilityRange[1] > 0 \/ filters.probabilityRange[2] < 100
         THEN 1 ELSE 0)

hasActiveFilters == getActiveFiltersCount > 0 \/ searchTerm # <<>>

\* the Clear All button, rendered while hasActiveFilters
clearAllFilters ==
    /\ phase = "mounted"
    /\ hasActiveFilters
    /\ filters' = ClearedFilters
    /\ searchTerm' = <<>>
    /\ storedFilters' = PersistedFilters(ClearedFilters, <<>>)
    /\ currentPage' = 1
    /\ lastOp' = "clearAll"
    /\ pageBefore' = currentPage
    /\ effects' = <<>>
    /\ recent' = <<>>
    /\ UNCHANGED <<deals, initialStageFilter, leadOwnerFilter, sortBy,
                   sortOrder, selectedDeals, deleteDialogOpen, dealToDelete,
                   phase, sessionBefore, otherVars>>
    /\ Render

\* a click on a column header
HeaderClick(field) ==
    /\ phase = "mounted"
    /\ IF sortBy = field
         THEN /\ sortOrder' = (IF sortOrder = "asc" THEN "desc" ELSE "asc")
              /\ UNCHANGED sortBy
         ELSE /\ sortBy' = field
              /\ sortOrder' = "desc"
    /\ lastOp' = "headerClick"
    /\ pageBefore' = currentPage
    /\ effects' = <<>>
    /\ recent' = <<>>
    /\ UNCHANGED <<deals, initialStageFilter, searchTerm, leadOwnerFilter,
                   filters, selectedDeals, currentPage, deleteDialogOpen,
                   dealToDelete, storedFilters, phase, sessionBefore,
                   otherVars>>
    /\ Render

Max(a, b) == IF a > b THEN a ELSE b
Min(a, b) == IF a < b THEN a ELSE b

\* the Previous button: rendered while totalPages > 0, disabled on page 1
PreviousPage ==
    /\ phase = "mounted"
    /\ totalPages > 0
    /\ currentPage # 1
    /\ currentPage' = Max(1, currentPage - 1)
    /\ lastOp' = "previous"
    /\ pageBefore' = currentPage
    /\ effects' = <<>>
    /\ recent' = <<>>
    /\ UNCHANGED <<deals, initialStageFilter, searchTerm, leadOwnerFilter,
                   filters, sortBy, sortOrder, selectedDeals,
                   deleteDialogOpen, dealToDelete, storedFilters, phase,
                   sessionBefore, otherVars>>
    /\ UNCHANGED view

\* the Next button: rendered while totalPages > 0, disabled on the last page
NextPage ==
    /\ phase = "mounted"
    /\ totalPages > 0
    /\ currentPage # totalPages
    /\ currentPage' = Min(totalPages, currentPage + 1)
    /\ lastOp' = "next"
    /\ pageBefore' = currentPage
    /\ effects' = <<>>
    /\ recent' = <<>>
    /\ UNCHANGED <<deals, initialStageFilter, searchTerm, leadOwnerFilter,
                   filters, sortBy, sortOrder, selectedDeals,
                   deleteDialogOpen, dealToDelete, storedFilters, phase,
                   sessionBefore, otherVars>>
    /\ UNCHANGED view

\* onCheckedChange of the header checkbox
handleSelectAll(checked) ==
    /\ phase = "mounted"
    /\ selectedDeals' = (IF checked THEN Ids(filteredAndSortedDeals) ELSE {})
    /\ lastOp' = (IF checked THEN "selectAll" ELSE "selectNone")
    /\ pageBefore' = currentPage
    /\ effects' = <<>>
    /\ recent' = Latest(recent, [op |-> IF checked THEN "selectAll" ELSE "selectNone",
                                  id |-> 0, before |-> selectedDeals])
    /\ UNCHANGED <<deals, initialStageFilter, searchTerm, leadOwnerFilter,
                   filters, sortBy, sortOrder, currentPage, deleteDialogOpen,
                   dealToDelete, storedFilters, phase, sessionBefore,
                   otherVars>>
    /\ UNCHANGED view

\* a row checkbox that selects whatever it reports
handleSelectDealAdding(dealId, checked) ==
    /\ phase = "mounted"
    /\ dealId \in Ids(paginatedDeals)
    /\ selectedDeals' = selectedDeals \cup {dealId}
    /\ lastOp' = "toggle"
    /\ pageBefore' = currentPage
    /\ effects' = <<>>
    /\ recent' = Latest(recent, [op |-> "toggle", id |-> dealId,
                                  before |-> selectedDeals])
    /\ UNCHANGED <<deals, initialStageFilter, searchTerm, leadOwnerFilter,
                   filters, sortBy, sortOrder, currentPage, deleteDialogOpen,
                   dealToDelete, storedFilters, phase, sessionBefore,
                   otherVars>>
    /\ UNCHANGED view

\* onCheckedChange of the checkbox of a row of the current page: the
\* checkbox shows selectedDeals.has(deal.id) and reports the opposite
handleSelectDeal(dealId, checked) ==
    /\ phase = "mounted"
    /\ dealId \in Ids(paginatedDeals)
    /\ selectedDeals' = (IF checked THEN selectedDeals \cup {dealId}
                         ELSE selectedDeals \ {dealId})
    /\ lastOp' = "toggle"
    /\ pageBefore' = currentPage
    /\ effects' = <<>>
    /\ recent' = Latest(recent, [op |-> "toggle", id |-> dealId,
                                  before |-> selectedDeals])
    /\ UNCHANGED <<deals, initialStageFilter, searchTerm, leadOwnerFilter,
                   filters, sortBy, sortOrder, currentPage, deleteDialogOpen,
                   dealToDelete, storedFilters, phase, sessionBefore,
                   otherVars>>
    /\ UNCHANGED view

\* the text of the notice of a bulk delete of n records
DeletedNotice(n) ==
    <<"Successfully", "deleted">> \o NumToString(n) \o <<"deals">>

\* a bulk delete that passes on only the selected ids shown on the page
handleBulkDeleteOfPage ==
    /\ phase = "mounted"
    /\ IF Cardinality(selectedDeals) = 0
         THEN /\ UNCHANGED <<deals, selectedDeals>>
              /\ effects' = <<>>
         ELSE /\ deals' = onDeleteDeals(selectedDeals \cap Ids(paginatedDeals))
              /\ selectedDeals' = {}
              /\ effects' = <<Called(selectedDeals \cap Ids(paginatedDeals)),
                              Toasted("Deals deleted",
                                      DeletedNotice(Cardinality(selectedDeals)))>>
    /\ lastOp' = "bulkDelete"
    /\ pageBefore' = currentPage
    /\ recent' = <<>>
    /\ UNCHANGED <<initialStageFilter, searchTerm, leadOwnerFilter, filters,
                   sortBy, sortOrder, currentPage, deleteDialogOpen,
                   dealToDelete, storedFilters, phase, sessionBefore,
                   otherVars>>
    /\ Render

\* onDelete of the bulk actions bar
handleBulkDelete ==
    /\ phase = "mounted"
    /\ IF Cardinality(selectedDeals) = 0
         THEN /\ UNCHANGED <<deals, selectedDeals>>
              /\ effects' = <<>>
         ELSE /\ deals' = onDeleteDeals(selectedDeals)
              /\ selectedDeals' = {}
              /\ effects' = <<Called(selectedDeals),
                              Toasted("Deals deleted",
                                      DeletedNotice(Cardinality(selectedDeals)))>>
    /\ lastOp' = "bulkDelete"
    /\ pageBefore' = currentPage
    /\ recent' = <<>>
    /\ UNCHANGED <<initialStageFilter, searchTerm, leadOwnerFilter, filters,
                   sortBy, sortOrder, currentPage, deleteDialogOpen,
                   dealToDelete, storedFilters, phase, sessionBefore,
                   otherVars>>
    /\ Render

\* onClearSelection of the bulk actions bar, rendered while ids are selected
ClearSelection ==
    /\ phase = "mounted"
    /\ Cardinality(selectedDeals) > 0
    /\ selectedDeals' = {}
    /\ lastOp' = "clearSelection"
    /\ pageBefore' = currentPage
    /\ effects' = <<>>
    /\ recent' = Latest(recent, [op |-> "clearSelection", id |-> 0,
                                  before |-> selectedDeals])
    /\ UNCHANGED <<deals, initialStageFilter, searchTerm, leadOwnerFilter,
                   filters, sortBy, sortOrder, currentPage, deleteDialogOpen,
                   dealToDelete, storedFilters, phase, sessionBefore,
                   otherVars>>
    /\ UNCHANGED view

\* Delete in the menu of a row of the current page
RowDelete(i) ==
    /\ phase = "mounted"
    /\ i \in DOMAIN paginatedDeals
    /\ dealToDelete' = Some(paginatedDeals[i])
    /\ deleteDialogOpen' = TRUE
    /\ lastOp' = "rowDelete"
    /\ pageBefore' = currentPage
    /\ effects' = <<>>
    /\ recent' = <<>>
    /\ UNCHANGED <<deals, initialStageFilter, searchTerm, leadOwnerFilter,
                   filters, sortBy, sortOrder, selectedDeals, currentPage,
                   storedFilters, phase, sessionBefore, otherVars>>
    /\ UNCHANGED view

\* onConfirm of the delete dialog, which then closes
DeleteConfirm ==
    /\ phase = "mounted"
    /\ deleteDialogOpen
    /\ IF IsSome(dealToDelete)
         THEN /\ deals' = onDeleteDeals({Val(dealToDelete).id})
              /\ dealToDelete' = None
              /\ effects' = <<Called({Val(dealToDelete).id}),
                              Toasted("Deal deleted",
                                      <<"Successfully", "deleted">>
                                        \o (IF OrEmpty(Val(dealToDelete).project_name) # <<>>
                                              THEN Val(Val(dealToDelete).project_name)
                                              ELSE <<"deal">>))>>
         ELSE /\ UNCHANGED <<deals, dealToDelete>>
              /\ effects' = <<>>
    /\ deleteDialogOpen' = FALSE
    /\ lastOp' = "deleteConfirm"
    /\ pageBefore' = currentPage
    /\ recent' = <<>>
    /\ UNCHANGED <<initialStageFilter, searchTerm, leadOwnerFilter, filters,
                   sortBy, sortOrder, selectedDeals, currentPage,
                   storedFilters, phase, sessionBefore, otherVars>>
    /\ Render

(***************************************************************************)
(* Spec: the list view's filters, sort and pagination.                      *)
(***************************************************************************)
\* the resize gesture's state as the useState initialisers give it
ResizeConstructed ==
    /\ columnWidths = WidthDoc("object", DefaultColumnWidths)
    /\ isResizing = None
    /\ startX = 0
    /\ startWidth = 0
    /\ rendered = [columnWidths |-> WidthDoc("object", DefaultColumnWidths),
                   isResizing |-> None, startX |-> 0, startWidth |-> 0]
    /\ listener = None
    /\ pointerX = 0

\* the first render
FirstRender ==
    \E filtered \in {FilterDeals(deals, searchTerm, leadOwnerFilter, filters)} :
      view \in SortOutcomes(filtered, sortBy, sortOrder)

Init ==
    /\ deals \in {Collection(n) : n \in CollectionSizes}
    /\ initialStageFilter = ALL
    /\ storedFilters \in {FilterDoc("absent", {}, ClearedFilters),
                          StringifyFilters([ClearedFilters EXCEPT !.stages = {<<"b">>}])}
    /\ storedWidths = WidthDoc("absent", NoWidths)
    /\ phase = "constructed"
    /\ sessionBefore = None
    /\ lastOp = "construct"
    /\ ListConstructed
    /\ ResizeConstructed
    /\ FirstRender
    /\ output = <<>>
    /\ loaded = NothingLoaded
    /\ edits = <<>>
    /\ NotifyIdle
    /\ CalcConstructed
    /\ pageBefore = 1
    /\ effects = <<>>
    /\ recent = <<>>

Next ==
    \/ Mount
    \/ \E n \in CollectionSizes : DealsChanged(n)
    \/ \E f \in FilterChoices : SetFilters(f)
    \/ \E t \in SearchTerms : SetSearchTerm(t)
    \/ \E o \in {ALL} \cup availableLeadOwners : SetLeadOwnerFilter(o)
    \/ clearAllFilters
    \/ \E field \in SortColumns : HeaderClick(field)
    \/ PreviousPage
    \/ NextPage

Spec == Init /\ [][Next]_vars

(***************************************************************************)
(* SpecSelect: the selection set, the row and bulk deletes, the pages.      *)
(***************************************************************************)
InitSelect ==
    /\ deals \in {Collection(n) : n \in SelectSizes}
    /\ initialStageFilter = ALL
    /\ storedFilters = FilterDoc("absent", {}, ClearedFilters)
    /\ storedWidths = WidthDoc("absent", NoWidths)
    /\ phase = "constructed"
    /\ sessionBefore = None
    /\ lastOp = "construct"
    /\ ListConstructed
    /\ ResizeConstructed
    /\ FirstRender
    /\ output = <<>>
    /\ loaded = NothingLoaded
    /\ edits = <<>>
    /\ NotifyIdle
    /\ CalcConstructed
    /\ pageBefore = 1
    /\ effects = <<>>
    /\ recent = <<>>

NextSelect ==
    \/ Mount
    \/ \E n \in SelectSizes : DealsChanged(n)
    \/ SetFilters([ClearedFilters EXCEPT !.stages = {<<"a">>}])
    \/ clearAllFilters
    \/ PreviousPage
    \/ NextPage
    \/ handleSelectAll(~HeaderChecked)
    \/ \E id \in TouchIds : handleSelectDeal(id, id \notin selectedDeals)
    \/ handleBulkDelete
    \/ ClearSelection
    \/ \E i \in DOMAIN paginatedDeals :
         paginatedDeals[i].id \in TouchIds /\ RowDelete(i)
    \/ DeleteConfirm

SpecSelect == InitSelect /\ [][NextSelect]_vars

(***************************************************************************)
(* SpecPersist: sessions that persist the filters and restore them.         *)
(***************************************************************************)
\* the sizes of the collections the restore is exercised on
PersistSizes == {1, 3}

\* the page is loaded again: the component is constructed anew over the
\* localStorage the last session left
Restart ==
    /\ phase \in {"mounted", "crashed"}
    /\ sessionBefore' = IF phase = "mounted"
                          THEN Some([filters |-> filters, searchTerm |-> searchTerm])
                          ELSE None
    /\ phase' = "constructed"
    /\ searchTerm' = <<>>
    /\ leadOwnerFilter' = ALL
    /\ filters' = InitialFilters(initialStageFilter)
    /\ sortBy' = "modified_at"
    /\ sortOrder' = "desc"
    /\ selectedDeals' = {}
    /\ currentPage' = 1
    /\ deleteDialogOpen' = FALSE
    /\ dealToDelete' = None
    /\ columnWidths' = WidthDoc("object", DefaultColumnWidths)
    /\ isResizing' = None
    /\ startX' = 0
    /\ startWidth' = 0
    /\ rendered' = [columnWidths |-> WidthDoc("object", DefaultColumnWidths),
                    isResizing |-> None, startX |-> 0, startWidth |-> 0]
    /\ listener' = None
    /\ lastOp' = "restart"
    /\ pageBefore' = currentPage
    /\ effects' = <<>>
    /\ recent' = <<>>
    /\ UNCHANGED <<deals, initialStageFilter, storedFilters, storedWidths,
                   pointerX, output, loaded, edits, notifyVars,
                   calcVars>>
    /\ Render

InitPersist ==
    /\ deals \in {Collection(n) : n \in PersistSizes}
    /\ initialStageFilter \in StageProps
    /\ storedFilters \in StoredFilterDocs
    /\ storedWidths \in StoredWidthDocs
    /\ phase = "constructed"
    /\ sessionBefore = None
    /\ lastOp = "construct"
    /\ ListConstructed
    /\ ResizeConstructed
    /\ FirstRender
    /\ output = <<>>
    /\ loaded = NothingLoaded
    /\ edits = <<>>
    /\ NotifyIdle
    /\ CalcConstructed
    /\ pageBefore = 1
    /\ effects = <<>>
    /\ recent = <<>>

NextPersist ==
    \/ Mount
    \/ \E f \in FilterChoices : SetFilters(f)
    \/ \E t \in SearchTerms : SetSearchTerm(t)
    \/ clearAllFilters
    \/ Restart

SpecPersist == InitPersist /\ [][NextPersist]_vars

(***************************************************************************)
(* SpecResize: the column resize gesture.                                   *)
(***************************************************************************)
\* the distance between two pointer positions
PointerStep == 40

\* the widest column the gesture is followed to
MaxWidth == 140

\* Minimum width of 80px
minWidth == 80

\* e.clientX of the mouse events
Pointers == {k * PointerStep : k \in 0..MaxPointer}

\* the columns whose resize handle is pressed
ResizeFields == {"priority", "stage"}

\* the own properties a spread copies
MapOf(w) == IF w.kind = "object" THEN w.map ELSE NoWidths

\* { ...prev, [isResizing]: newWidth }
WithWidth(prev, field, newWidth) ==
    WidthDoc("object",
             [f \in DOMAIN MapOf(prev) \cup {field} |->
                IF f = field THEN newWidth ELSE MapOf(prev)[f]])

\* the state a render reads and its handlers close over
CurrentState ==
    [columnWidths |-> columnWidths, isResizing |-> isResizing,
     startX |-> startX, startWidth |-> startWidth]

\* the list view's state stays as it is during the gesture
ListUnchanged ==
    UNCHANGED <<deals, initialStageFilter, searchTerm, leadOwnerFilter, filters,
                sortBy, sortOrder, selectedDeals, currentPage,
                deleteDialogOpen, dealToDelete, storedFilters, phase,
                sessionBefore, view, output, loaded, edits, notifyVars,
                calcVars>>

\* onMouseDown of a resize handle, and the render and listener effect that
\* follow the three state updates
handleMouseDown(field, clientX) ==
    /\ phase = "mounted"
    /\ isResizing' = Some(field)
    /\ startX' = clientX
    /\ startWidth' = WidthOf(rendered.columnWidths, field)
    /\ rendered' = [columnWidths |-> columnWidths, isResizing |-> isResizing',
                    startX |-> startX', startWidth |-> startWidth']
    /\ listener' = Some(rendered')
    /\ lastOp' = "mouseDown"
    /\ pageBefore' = currentPage
    /\ effects' = <<>>
    /\ recent' = <<>>
    /\ UNCHANGED <<columnWidths, storedWidths, pointerX>>
    /\ ListUnchanged

\* a mousemove listener that applies the requested width as it is
handleMouseMoveUnclamped(clientX) ==
    /\ phase = "mounted"
    /\ IsSome(listener)
    /\ LET closure == Val(listener)
           deltaX == clientX - closure.startX
           newWidth == closure.startWidth + deltaX
       IN  /\ IsSome(closure.isResizing)
           /\ newWidth <= MaxWidth
           /\ columnWidths' = WithWidth(columnWidths, Val(closure.isResizing), newWidth)
    /\ pointerX' = clientX
    /\ lastOp' = "mouseMove"
    /\ pageBefore' = currentPage
    /\ effects' = <<>>
    /\ recent' = <<>>
    /\ UNCHANGED <<isResizing, startX, startWidth, rendered, listener,
                   storedWidths>>
    /\ ListUnchanged

\* the document's mousemove listener: the handleMouseMove of the render that
\* registered it; the state update waits for the next render
handleMouseMove(clientX) ==
    /\ phase = "mounted"
    /\ IsSome(listener)
    /\ LET closure == Val(listener)
           deltaX == clientX - closure.startX
           newWidth == Max(minWidth, closure.startWidth + deltaX)
       IN  /\ IsSome(closure.isResizing)
           /\ newWidth <= MaxWidth
           /\ columnWidths' = WithWidth(columnWidths, Val(closure.isResizing), newWidth)
    /\ pointerX' = clientX
    /\ lastOp' = "mouseMove"
    /\ pageBefore' = currentPage
    /\ effects' = <<>>
    /\ recent' = <<>>
    /\ UNCHANGED <<isResizing, startX, startWidth, rendered, listener,
                   storedWidths>>
    /\ ListUnchanged

\* the render that a width update scheduled, and the listener effect: the
\* listeners of the last render are removed and those of this one registered
Rerender ==
    /\ phase = "mounted"
    /\ rendered # CurrentState
    /\ rendered' = CurrentState
    /\ listener' = IF IsSome(isResizing) THEN Some(CurrentState) ELSE None
    /\ lastOp' = "rerender"
    /\ pageBefore' = currentPage
    /\ effects' = <<>>
    /\ recent' = <<>>
    /\ UNCHANGED <<columnWidths, isResizing, startX, startWidth, storedWidths,
                   pointerX>>
    /\ ListUnchanged

\* the document's mouseup listener: the handleMouseUp of the render that
\* registered it, then the render that removes the listeners
handleMouseUp ==
    /\ phase = "mounted"
    /\ IsSome(listener)
    /\ LET closure == Val(listener)
       IN  /\ IsSome(closure.isResizing)
           /\ storedWidths' = StringifyWidths(closure.columnWidths)
    /\ isResizing' = None
    /\ rendered' = [CurrentState EXCEPT !.isResizing = None]
    /\ listener' = None
    /\ lastOp' = "mouseUp"
    /\ pageBefore' = currentPage
    /\ effects' = <<>>
    /\ recent' = <<>>
    /\ UNCHANGED <<columnWidths, startX, startWidth, pointerX>>
    /\ ListUnchanged

InitResize ==
    /\ deals = Collection(1)
    /\ initialStageFilter = ALL
    /\ storedFilters = FilterDoc("absent", {}, ClearedFilters)
    /\ storedWidths \in {WidthDoc("absent", NoWidths),
                         WidthDoc("object", [f \in {"priority"} |-> 50])}
    /\ phase = "constructed"
    /\ sessionBefore = None
    /\ lastOp = "construct"
    /\ ListConstructed
    /\ ResizeConstructed
    /\ FirstRender
    /\ output = <<>>
    /\ loaded = NothingLoaded
    /\ edits = <<>>
    /\ NotifyIdle
    /\ CalcConstructed
    /\ pageBefore = 1
    /\ effects = <<>>
    /\ recent = <<>>

NextResize ==
    \/ Mount
    \/ \E field \in ResizeFields : \E clientX \in Pointers :
         handleMouseDown(field, clientX)
    \/ \E clientX \in Pointers : handleMouseMove(clientX)
    \/ Rerender
    \/ handleMouseUp

SpecResize == InitResize /\ [][NextResize]_vars

(***************************************************************************)
(* SpecEdit: inline edits of a cell, routed to the caller's onUpdateDeal.   *)
(***************************************************************************)
\* the most inline edits submitted in one session
MaxEdits == 2

\* the columns whose cell is edited, and the values entered
EditFields == {"stage", "priority"}

EditValues == {Some(<<"a">>), None}

\* toast({ title, description }): the description as its words
Toast(title, description) == [title |-> title, description |-> description]

\* the records, filters, sort, page and selection
EngineState ==
    <<deals, filters, searchTerm, leadOwnerFilter, sortBy, sortOrder,
      currentPage, selectedDeals>>

\* the list, resize and storage state an inline edit leaves alone
EditUnchanged ==
    UNCHANGED <<deals, initialStageFilter, searchTerm, leadOwnerFilter, filters,
                sortBy, sortOrder, selectedDeals, currentPage,
                deleteDialogOpen, dealToDelete, storedFilters, phase,
                sessionBefore, view, resizeVars, output, loaded,
                notifyVars, calcVars>>

\* onSave of an InlineEditCell: handleInlineEdit up to its await
handleInlineEdit(dealId, field, value) ==
    /\ phase = "mounted"
    /\ Len(edits) < MaxEdits
    /\ edits' = Append(edits, [dealId |-> dealId, field |-> field,
                               value |-> value, calls |-> 1,
                               settled |-> "pending", toasts |-> <<>>,
                               engine |-> EngineState])
    /\ lastOp' = "inlineEdit"
    /\ pageBefore' = currentPage
    /\ effects' = <<>>
    /\ recent' = <<>>
    /\ EditUnchanged

\* the promise of onUpdateDeal fulfils: the rest of the try block
UpdateResolves(i) ==
    /\ phase = "mounted"
    /\ edits[i].settled = "pending"
    /\ edits' = [edits EXCEPT
                   ![i].settled = "resolved",
                   ![i].toasts = Append(@, Toast("Deal updated",
                                  <<"Field", "updated", "successfully">>))]
    /\ lastOp' = "updateResolved"
    /\ pageBefore' = currentPage
    /\ effects' = <<>>
    /\ recent' = <<>>
    /\ EditUnchanged

\* the promise of onUpdateDeal rejects: the catch block
UpdateRejects(i) ==
    /\ phase = "mounted"
    /\ edits[i].settled = "pending"
    /\ edits' = [edits EXCEPT
                   ![i].settled = "rejected",
                   ![i].toasts = Append(@, Toast("Update failed",
                                  <<"Failed", "to", "update", "deal", "field">>))]
    /\ lastOp' = "updateRejected"
    /\ pageBefore' = currentPage
    /\ effects' = <<>>
    /\ recent' = <<>>
    /\ EditUnchanged

InitEdit ==
    /\ deals \in {Collection(n) : n \in PersistSizes}
    /\ initialStageFilter = ALL
    /\ storedFilters = FilterDoc("absent", {}, ClearedFilters)
    /\ storedWidths = WidthDoc("absent", NoWidths)
    /\ phase = "constructed"
    /\ sessionBefore = None
    /\ lastOp = "construct"
    /\ ListConstructed
    /\ ResizeConstructed
    /\ FirstRender
    /\ output = <<>>
    /\ loaded = NothingLoaded
    /\ edits = <<>>
    /\ NotifyIdle
    /\ CalcConstructed
    /\ pageBefore = 1
    /\ effects = <<>>
    /\ recent = <<>>

NextEdit ==
    \/ Mount
    \/ \E dealId \in Ids(deals) : \E field \in EditFields : \E value \in EditValues :
         handleInlineEdit(dealId, field, value)
    \/ \E i \in DOMAIN edits : UpdateResolves(i)
    \/ \E i \in DOMAIN edits : UpdateRejects(i)

SpecEdit == InitEdit /\ [][NextEdit]_vars

(***************************************************************************)
(* SpecFilter: the filter applied to one record under one filter state.     *)
(***************************************************************************)
\* the largest probability of a record
MaxProbability == 100

FilterRecords ==
    {[id |-> 1, deal_name |-> n, project_name |-> None, lead_name |-> None,
      customer_name |-> None, region |-> r, lead_owner |-> o, stage |-> st,
      priority |-> pr, probability |-> pb, handoff_status |-> h,
      total_contract_value |-> None, expected_closing_date |-> None,
      modified_at |-> None] :
        n \in {None, Some(<<"a">>), Some(<<"A", " ", "b">>), Some(<<"a", "b">>)},
        r \in {None, Some(<<"a">>), Some(<<"b">>)},
        o \in {None, Some(<<"a">>)},
        st \in {Some(<<"a">>), Some(<<"b">>)},
        pr \in {None, Some(1), Some(2)},
        pb \in {None, Some(0), Some(5), Some(MaxProbability)},
        h \in {None, Some(<<"a">>)}}

\* filter states with at most one constraint
FilterStates ==
    {ClearedFilters,
     [ClearedFilters EXCEPT !.searchTerm = <<"b">>],
     [ClearedFilters EXCEPT !.probabilityRange = <<5, MaxProbability>>]}
    \cup {[ClearedFilters EXCEPT !.stages = x] : x \in {{<<"a">>}, {<<"a">>, <<"b">>}}}
    \cup {[ClearedFilters EXCEPT !.regions = x] :
             x \in {{<<"a">>}, {<<"a">>, <<"b">>}, {<<>>}}}
    \cup {[ClearedFilters EXCEPT !.leadOwners = x] : x \in {{<<"a">>}, {<<"b">>}}}
    \cup {[ClearedFilters EXCEPT !.priorities = x] : x \in {{<<"1">>}, {<<"1">>, <<"2">>}}}
    \cup {[ClearedFilters EXCEPT !.probabilities = x] :
             x \in {{<<"0">>}, {<<"5">>}, {<<"0">>, NumToString(MaxProbability)}}}
    \cup {[ClearedFilters EXCEPT !.handoffStatuses = x] : x \in {{<<"a">>}, {<<"b">>}}}

\* records 1..Len(stages) of the collection with the given stages
Staged(stages) ==
    [i \in DOMAIN stages |-> [DealOf(i) EXCEPT !.stage = Some(<<stages[i]>>)]]

\* the lists of several records the filter is applied to
FilterLists ==
    {Staged(<<"a", "a", "b", "c", "a">>), Staged(<<"b", "a">>), Collection(4)}

InitFilter ==
    /\ deals \in {<<r>> : r \in FilterRecords} \cup FilterLists
    /\ filters \in FilterStates
    /\ searchTerm \in {<<>>, <<"a">>}
    /\ leadOwnerFilter = ALL
    /\ initialStageFilter = ALL
    /\ sortBy = "modified_at"
    /\ sortOrder = "desc"
    /\ selectedDeals = {}
    /\ currentPage = 1
    /\ deleteDialogOpen = FALSE
    /\ dealToDelete = None
    /\ storedFilters = FilterDoc("absent", {}, ClearedFilters)
    /\ storedWidths = WidthDoc("absent", NoWidths)
    /\ phase = "input"
    /\ sessionBefore = None
    /\ lastOp = "construct"
    /\ ResizeConstructed
    /\ view = <<>>
    /\ output = <<>>
    /\ loaded = NothingLoaded
    /\ edits = <<>>
    /\ NotifyIdle
    /\ CalcConstructed
    /\ pageBefore = 1
    /\ effects = <<>>
    /\ recent = <<>>

\* deals.filter(...) on its own
ApplyFilter ==
    /\ phase = "input"
    /\ output' = FilterDeals(deals, searchTerm, leadOwnerFilter, filters)
    /\ phase' = "done"
    /\ lastOp' = "filter"
    /\ pageBefore' = currentPage
    /\ effects' = <<>>
    /\ recent' = <<>>
    /\ UNCHANGED <<deals, initialStageFilter, searchTerm, leadOwnerFilter,
                   filters, sortBy, sortOrder, selectedDeals, currentPage,
                   deleteDialogOpen, dealToDelete, storedFilters,
                   sessionBefore, view, resizeVars, loaded, edits,
                   notifyVars, calcVars>>

SpecFilter == InitFilter /\ [][ApplyFilter]_vars

(***************************************************************************)
(* SpecSort: the sort applied to a sequence of records that differ in the   *)
(* sort field only.                                                        *)
(***************************************************************************)
ValidDate(t) == [valid |-> TRUE, ts |-> t]

\* a string that new Date() does not parse
InvalidDate == [valid |-> FALSE, ts |-> 0]

BlankRecord ==
    [id |-> 0, deal_name |-> None, project_name |-> None, lead_name |-> None,
     customer_name |-> None, region |-> None, lead_owner |-> None,
     stage |-> None, priority |-> None, probability |-> None,
     handoff_status |-> None, total_contract_value |-> None,
     expected_closing_date |-> None, modified_at |-> None]

\* the sort fields tried: a date, two numbers, a text
SortFieldsAlone ==
    {"expected_closing_date", "total_contract_value", "probability",
     "project_name"}

SortValues(by) ==
    IF by \in DateSortFields
      THEN {None, Some(ValidDate(1)), Some(ValidDate(2)), Some(InvalidDate)}
    ELSE IF by \in NumericSortFields
      THEN {None, Some(0), Some(50), Some(100)}
    ELSE {None, Some(<<"a">>), Some(<<"A">>), Some(<<"b">>)}

\* the sequences of at most MaxSortLen records, record i having id i
SortInputs(by) ==
    UNION {{[i \in 1..n |-> [BlankRecord EXCEPT !.id = i, ![by] = vs[i]]] :
               vs \in [1..n -> SortValues(by)]} : n \in 0..MaxSortLen}

InitSort ==
    /\ sortBy \in SortFieldsAlone
    /\ sortOrder \in {"asc", "desc"}
    /\ deals \in SortInputs(sortBy)
    /\ filters = ClearedFilters
    /\ searchTerm = <<>>
    /\ leadOwnerFilter = ALL
    /\ initialStageFilter = ALL
    /\ selectedDeals = {}
    /\ currentPage = 1
    /\ deleteDialogOpen = FALSE
    /\ dealToDelete = None
    /\ storedFilters = FilterDoc("absent", {}, ClearedFilters)
    /\ storedWidths = WidthDoc("absent", NoWidths)
    /\ phase = "input"
    /\ sessionBefore = None
    /\ lastOp = "construct"
    /\ ResizeConstructed
    /\ view = <<>>
    /\ output = <<>>
    /\ loaded = NothingLoaded
    /\ edits = <<>>
    /\ NotifyIdle
    /\ CalcConstructed
    /\ pageBefore = 1
    /\ effects = <<>>
    /\ recent = <<>>

\* .sort(comparator) on its own
ApplySort ==
    /\ phase = "input"
    /\ output' \in SortOutcomes(deals, sortBy, sortOrder)
    /\ phase' = "done"
    /\ lastOp' = "sort"
    /\ pageBefore' = currentPage
    /\ effects' = <<>>
    /\ recent' = <<>>
    /\ UNCHANGED <<deals, initialStageFilter, searchTerm, leadOwnerFilter,
                   filters, sortBy, sortOrder, selectedDeals, currentPage,
                   deleteDialogOpen, dealToDelete, storedFilters,
                   sessionBefore, view, resizeVars, loaded, edits,
                   notifyVars, calcVars>>

SpecSort == InitSort /\ [][ApplySort]_vars

(***************************************************************************)
(* SpecNotify: the send-task-notification handler serving one request.     *)
(***************************************************************************)
\* the fields the handler requires of the request body
RequiredFields == {"taskId", "notificationType", "recipientUserId", "taskTitle"}

\* the request bodies: text that is not JSON, or a JSON object holding some
\* of the required fields with a non-empty value
Bodies ==
    {[json |-> FALSE, fields |-> {}]}
    \cup {[json |-> TRUE, fields |-> fs] : fs \in SUBSET RequiredFields}

\* JSON.stringify({ error })
ErrorBody(message) == {<<"error", message>>}

\* JSON.stringify({ success, message })
ResultBody(success, message) == {<<"success", success>>, <<"message", message>>}

\* the list view is not involved
NotifyUnchanged ==
    UNCHANGED <<listVars, resizeVars, output, loaded, edits, pageBefore, recent,
                effects, req, env, calcVars>>

\* the handler runs a step with an outcome
Step(name, outcome) ==
    trace' = Append(trace, [step |-> name, outcome |-> outcome])

\* return new Response(JSON.stringify(body), { status, headers })
Respond(status, body) ==
    /\ responses' = Append(responses, [status |-> status,
                                       type |-> "application/json",
                                       body |-> body])
    /\ pc' = "done"

\* the catch block of the handler
Caught(message) == Respond(500, ErrorBody(message))

\* the preflight answer, the parse of the body and the required-field check
Receive ==
    /\ pc = "received"
    /\ IF req.method = "OPTIONS"
         THEN /\ Step("method", "OPTIONS")
              /\ responses' = Append(responses, [status |-> 200, type |-> "none",
                                                 body |-> {}])
              /\ pc' = "done"
         ELSE IF ~req.body.json
           THEN Step("request body", "throws") /\ Caught("Unexpected token")
         ELSE IF req.body.fields # RequiredFields
           THEN /\ Step("required fields", "missing")
                /\ Respond(400, ErrorBody("Missing required fields"))
         ELSE /\ Step("required fields", "present")
              /\ pc' = "profile"
              /\ UNCHANGED responses
    /\ NotifyUnchanged

\* the query for the recipient's profile, and the check of its email
FetchProfile(outcome) ==
    /\ pc = "profile"
    /\ Step("recipient lookup", outcome)
    /\ IF outcome = "error"
         THEN Respond(404, ErrorBody("Recipient not found"))
         ELSE IF outcome = "no email"
           THEN Respond(200, ResultBody("false", "Recipient has no email"))
         ELSE pc' = "prefs" /\ UNCHANGED responses
    /\ NotifyUnchanged

\* the query for the recipient's notification preferences: a row, or no data
FetchPrefs(outcome) ==
    /\ pc = "prefs"
    /\ Step("preferences", outcome)
    /\ IF outcome = "disabled"
         THEN Respond(200, ResultBody("false", "User has notifications disabled"))
         ELSE pc' = "sender" /\ UNCHANGED responses
    /\ NotifyUnchanged

\* AZURE_SENDER_EMAIL, or else the email of the first profile
ResolveSender(adminOutcome) ==
    /\ pc = "sender"
    /\ IF env.sender
         THEN /\ Step("sender address", "configured")
              /\ pc' = "token"
              /\ UNCHANGED responses
         ELSE /\ Step("sender address", adminOutcome)
              /\ IF adminOutcome = "none"
                   THEN Respond(500, ErrorBody("Sender email not configured"))
                   ELSE pc' = "token" /\ UNCHANGED responses
    /\ NotifyUnchanged

\* the client-credential exchange; what it throws reaches the catch block
getAccessToken(outcome) ==
    /\ pc = "token"
    /\ IF ~env.credentials
         THEN /\ Step("token exchange", "not configured")
              /\ Caught("Azure email credentials not configured")
         ELSE /\ Step("token exchange", outcome)
              /\ IF outcome = "rejected"
                   THEN Caught("Failed to get Azure access token")
                   ELSE IF outcome = "unreachable"
                     THEN Caught("fetch failed")
                   ELSE pc' = "send" /\ UNCHANGED responses
    /\ NotifyUnchanged

\* a mail call that does not look at response.ok
sendEmailViaGraphUnchecked(outcome) ==
    /\ pc = "send"
    /\ Step("mail API", outcome)
    /\ IF outcome = "unreachable"
         THEN Caught("fetch failed")
         ELSE Respond(200, ResultBody("true", "Notification email sent"))
    /\ NotifyUnchanged

\* the sendMail call and the response that follows it
sendEmailViaGraph(outcome) ==
    /\ pc = "send"
    /\ Step("mail API", outcome)
    /\ IF outcome = "rejected"
         THEN Caught("Failed to send email via Graph API")
         ELSE IF outcome = "unreachable"
           THEN Caught("fetch failed")
         ELSE Respond(200, ResultBody("true", "Notification email sent"))
    /\ NotifyUnchanged

InitNotify ==
    /\ deals = <<>>
    /\ initialStageFilter = ALL
    /\ storedFilters = FilterDoc("absent", {}, ClearedFilters)
    /\ storedWidths = WidthDoc("absent", NoWidths)
    /\ phase = "constructed"
    /\ sessionBefore = None
    /\ lastOp = "construct"
    /\ ListConstructed
    /\ ResizeConstructed
    /\ view = <<>>
    /\ output = <<>>
    /\ loaded = NothingLoaded
    /\ edits = <<>>
    /\ pageBefore = 1
    /\ effects = <<>>
    /\ recent = <<>>
    /\ req \in [method : {"OPTIONS", "POST"}, body : Bodies]
    /\ env \in [sender : BOOLEAN, credentials : BOOLEAN]
    /\ pc = "received"
    /\ trace = <<>>
    /\ responses = <<>>
    /\ CalcConstructed

NextNotify ==
    \/ Receive
    \/ \E outcome \in {"error", "no email", "found"} : FetchProfile(outcome)
    \/ \E outcome \in {"none", "disabled", "enabled"} : FetchPrefs(outcome)
    \/ \E adminOutcome \in {"none", "found"} : ResolveSender(adminOutcome)
    \/ \E outcome \in {"token", "rejected", "unreachable"} : getAccessToken(outcome)
    \/ \E outcome \in {"accepted", "rejected", "unreachable"} :
         sendEmailViaGraph(outcome)

SpecNotify == InitNotify /\ [][NextNotify]_vars

(***************************************************************************)
(* SpecCalc: the calculator keypad.  The numbers followed are the integers  *)
(* up to MaxValue, NaN and the two infinities; the decimal point and the    *)
(* percent key, which leave them, are not pressed.                          *)
(***************************************************************************)
\* the largest magnitude of a result the calculator is followed to
MaxValue == 30

\* the most characters typed into the display
MaxDigits == 2

\* the digit keys pressed
DigitKeys == {"0", "2", "5"}

\* the operator keys: "x" stands for the multiplication sign and "/" for
\* the division sign
OperatorKeys == {"+", "-", "x", "/"}

\* the values of the number type
Num(n) == [kind |-> "num", n |-> n]
NaN == [kind |-> "nan", n |-> 0]
Infinity(sign) == [kind |-> "inf", n |-> sign]

\* a quotient that is no integer
Fraction == [kind |-> "fraction", n |-> 0]

Abs(n) == IF n < 0 THEN -n ELSE n
SignOf(n) == IF n < 0 THEN -1 ELSE 1

\* a + b
Plus(a, b) ==
    IF a.kind = "nan" \/ b.kind = "nan" THEN NaN
    ELSE IF a.kind = "inf" /\ b.kind = "inf"
      THEN (IF a.n = b.n THEN a ELSE NaN)
    ELSE IF a.kind = "inf" THEN a
    ELSE IF b.kind = "inf" THEN b
    ELSE Num(a.n + b.n)

\* a - b
Minus(a, b) ==
    Plus(a, IF b.kind = "nan" THEN NaN ELSE [b EXCEPT !.n = -b.n])

\* a * b
Times(a, b) ==
    IF a.kind = "nan" \/ b.kind = "nan" THEN NaN
    ELSE IF a.kind = "inf" \/ b.kind = "inf"
      THEN (IF a.n = 0 \/ b.n = 0 THEN NaN
            ELSE Infinity(SignOf(a.n) * SignOf(b.n)))
    ELSE Num(a.n * b.n)

\* a / b
Divide(a, b) ==
    IF a.kind = "nan" \/ b.kind = "nan" THEN NaN
    ELSE IF a.kind = "inf"
      THEN (IF b.kind = "inf" THEN NaN ELSE Infinity(a.n * SignOf(b.n)))
    ELSE IF b.kind = "inf" THEN Num(0)
    ELSE IF b.n = 0
      THEN (IF a.n = 0 THEN NaN ELSE Infinity(SignOf(a.n)))
    ELSE IF Abs(a.n) % Abs(b.n) = 0
      THEN Num(SignOf(a.n) * SignOf(b.n) * (Abs(a.n) \div Abs(b.n)))
    ELSE Fraction

\* the switch on the pending operator
Compute(op, a, b) ==
    CASE op = "+" -> Plus(a, b)
      [] op = "-" -> Minus(a, b)
      [] op = "x" -> Times(a, b)
      [] op = "/" -> Divide(a, b)
      [] OTHER -> b

\* the results the calculator is followed to
Followed(v) == v.kind # "fraction" /\ (v.kind = "num" => Abs(v.n) <= MaxValue)

InfinityChars == <<"I", "n", "f", "i", "n", "i", "t", "y">>

\* String(number)
String(v) ==
    IF v.kind = "nan" THEN <<"N", "a", "N">>
    ELSE IF v.kind = "inf"
      THEN (IF v.n < 0 THEN <<"-">> ELSE <<>>) \o InfinityChars
    ELSE (IF v.n < 0 THEN <<"-">> ELSE <<>>) \o NumToString(Abs(v.n))

IsDigit(c) == c \in {DigitChar(d) : d \in 0..9}

DigitValue(c) == CHOOSE d \in 0..9 : DigitChar(d) = c

\* the value of the digits a text starts with
RECURSIVE LeadingDigitsValue(_, _)
LeadingDigitsValue(text, sofar) ==
    IF text = <<>> \/ ~IsDigit(Head(text)) THEN sofar
    ELSE LeadingDigitsValue(Tail(text), 10 * sofar + DigitValue(Head(text)))

\* parseFloat of a text without a decimal point or an exponent
parseFloat(text) ==
    LET negative == text # <<>> /\ Head(text) = "-"
        body == IF negative THEN Tail(text) ELSE text
        sign == IF negative THEN -1 ELSE 1
    IN  IF Len(body) >= Len(InfinityChars)
             /\ SubSeq(body, 1, Len(InfinityChars)) = InfinityChars
          THEN Infinity(sign)
        ELSE IF body = <<>> \/ ~IsDigit(Head(body)) THEN NaN
        ELSE Num(sign * LeadingDigitsValue(body, 0))

\* previousValue || 0
OrZeroNumber(v) == IF v.kind = "nan" THEN Num(0) ELSE v

\* the list view and the handler are not involved
CalcUnchanged ==
    UNCHANGED <<deals, initialStageFilter, searchTerm, leadOwnerFilter, filters,
                sortBy, sortOrder, selectedDeals, currentPage,
                deleteDialogOpen, dealToDelete, storedFilters, phase,
                sessionBefore, view, resizeVars, output, loaded, edits,
                notifyVars>>

\* a digit key
inputDigit(digit) ==
    /\ IF waitingForOperand
         THEN /\ display' = <<digit>>
              /\ waitingForOperand' = FALSE
         ELSE /\ display' = (IF display = <<"0">> THEN <<digit>>
                             ELSE Append(display, digit))
              /\ Len(display') <= MaxDigits
              /\ UNCHANGED waitingForOperand
    /\ UNCHANGED <<previousValue, operator>>
    /\ lastOp' = "inputDigit"
    /\ pageBefore' = currentPage
    /\ effects' = <<>>
    /\ recent' = <<>>
    /\ CalcUnchanged

\* the AC key
clear ==
    /\ display' = <<"0">>
    /\ previousValue' = None
    /\ operator' = None
    /\ waitingForOperand' = FALSE
    /\ lastOp' = "clear"
    /\ pageBefore' = currentPage
    /\ effects' = <<>>
    /\ recent' = <<>>
    /\ CalcUnchanged

\* an operator key
performOperation(nextOperator) ==
    /\ LET inputValue == parseFloat(display) IN
       IF previousValue = None
         THEN /\ previousValue' = Some(inputValue)
              /\ UNCHANGED display
         ELSE IF IsSome(operator)
           THEN LET currentValue == OrZeroNumber(Val(previousValue))
                    result == Compute(Val(operator), currentValue, inputValue)
                IN  /\ Followed(result)
                    /\ display' = String(result)
                    /\ previousValue' = Some(result)
         ELSE UNCHANGED <<display, previousValue>>
    /\ waitingForOperand' = TRUE
    /\ operator' = Some(nextOperator)
    /\ lastOp' = "performOperation"
    /\ pageBefore' = currentPage
    /\ effects' = <<>>
    /\ recent' = <<>>
    /\ CalcUnchanged

\* the = key
calculate ==
    /\ IF operator = None \/ previousValue = None
         THEN UNCHANGED calcVars
         ELSE LET inputValue == parseFloat(display)
                  result == Compute(Val(operator), Val(previousValue), inputValue)
              IN  /\ Followed(result)
                  /\ display' = String(result)
                  /\ previousValue' = None
                  /\ operator' = None
                  /\ waitingForOperand' = TRUE
    /\ lastOp' = "calculate"
    /\ pageBefore' = currentPage
    /\ effects' = <<>>
    /\ recent' = <<>>
    /\ CalcUnchanged

\* the sign key
toggleSign ==
    /\ display' = String(Times(parseFloat(display), Num(-1)))
    /\ UNCHANGED <<previousValue, operator, waitingForOperand>>
    /\ lastOp' = "toggleSign"
    /\ pageBefore' = currentPage
    /\ effects' = <<>>
    /\ recent' = <<>>
    /\ CalcUnchanged

InitCalc ==
    /\ deals = <<>>
    /\ initialStageFilter = ALL
    /\ storedFilters = FilterDoc("absent", {}, ClearedFilters)
    /\ storedWidths = WidthDoc("absent", NoWidths)
    /\ phase = "constructed"
    /\ sessionBefore = None
    /\ lastOp = "construct"
    /\ ListConstructed
    /\ ResizeConstructed
    /\ view = <<>>
    /\ output = <<>>
    /\ loaded = NothingLoaded
    /\ edits = <<>>
    /\ NotifyIdle
    /\ CalcConstructed
    /\ pageBefore = 1
    /\ effects = <<>>
    /\ recent = <<>>

NextCalc ==
    \/ \E digit \in DigitKeys : inputDigit(digit)
    \/ clear
    \/ \E nextOperator \in OperatorKeys : performOperation(nextOperator)
    \/ calculate
    \/ toggleSign

SpecCalc == InitCalc /\ [][NextCalc]_vars

(***************************************************************************)
(* Properties of the list view.                                            *)
(***************************************************************************)
\* C1: in every reachable state currentPage lies in [1, max(1, totalPages)]
C1_CurrentPageInRange ==
    currentPage >= 1 /\ currentPage <= Max(1, totalPages)

\* C2: checking the header checkbox sets the selection to exactly the ids
\* of the records on the current page
C2_SelectAllIsPageLocal ==
    lastOp = "selectAll" => selectedDeals = Ids(paginatedDeals)

\* C5: every selected id is the id of a record of the current collection
C5_SelectionWithinCollection ==
    selectedDeals \subseteq Ids(deals)

\* what the specification takes a categorical dimension to accept: no constraint,
\* or the record's value (a number in its string form) among the allowed
AllowsText(allowed, o) == allowed = {} \/ (IsSome(o) /\ Val(o) \in allowed)

AllowsNumber(allowed, o) ==
    allowed = {} \/ (IsSome(o) /\ NumToString(Val(o)) \in allowed)

\* C3: for every record and filter state, a record satisfies a categorical
\* dimension iff the dimension's allowed-set is empty or contains the
\* record's value (numbers by their string form, probability 0 included)
C3_DimensionIffMember ==
    lastOp = "filter" =>
      \A i \in DOMAIN deals :
        LET d == deals[i] IN
        /\ matchesStages(d, filters) <=> AllowsText(filters.stages, d.stage)
        /\ matchesRegions(d, filters) <=> AllowsText(filters.regions, d.region)
        /\ matchesLeadOwners(d, filters)
             <=> AllowsText(filters.leadOwners, d.lead_owner)
        /\ matchesPriorities(d, filters)
             <=> AllowsNumber(filters.priorities, d.priority)
        /\ matchesProbabilities(d, filters)
             <=> AllowsNumber(filters.probabilities, d.probability)
        /\ matchesHandoffStatuses(d, filters)
             <=> AllowsText(filters.handoffStatuses, d.handoff_status)

(***************************************************************************)
(* Properties of the sort.                                                 *)
(***************************************************************************)
\* the position of the record with id i in a sequence
PositionOf(ds, i) == CHOOSE p \in DOMAIN ds : ds[p].id = i

\* C7: two records with equal sort keys keep their relative input order in
\* the output, for every input, sort field and direction
C7_SortIsStable ==
    lastOp = "sort" =>
      \A i \in DOMAIN deals : \A j \in DOMAIN deals :
        (i < j /\ SortKey(deals[i], sortBy) = SortKey(deals[j], sortBy))
          => PositionOf(output, deals[i].id) < PositionOf(output, deals[j].id)

\* the timestamp the specification gives a date value: 0 when missing or unparsable
ClaimedTimestamp(o) == IF IsSome(o) /\ Val(o).valid THEN Val(o).ts ELSE 0

\* C8: sorted by a date field, the output is ordered by timestamp, a missing
\* or unparsable value counting as timestamp 0
C8_DatesOrderedByTimestamp ==
    (lastOp = "sort" /\ sortBy \in DateSortFields) =>
      \A p \in DOMAIN output : \A q \in DOMAIN output :
        p < q =>
          IF sortOrder = "asc"
            THEN ClaimedTimestamp(output[p][sortBy]) <= ClaimedTimestamp(output[q][sortBy])
            ELSE ClaimedTimestamp(output[p][sortBy]) >= ClaimedTimestamp(output[q][sortBy])

(***************************************************************************)
(* Properties of the persisted records.                                    *)
(***************************************************************************)
\* C4: filters and search term written to 'deals-filters' and restored by the
\* mount of the next session derive the same filtered list as before the
\* restart
C4_RestoreRoundTrip ==
    (lastOp = "mount" /\ phase = "mounted" /\ IsSome(sessionBefore))
      => FilterDeals(deals, searchTerm, ALL, filters)
           = FilterDeals(deals, Val(sessionBefore).searchTerm, ALL,
                         Val(sessionBefore).filters)

\* not JSON, or JSON that is not an object holding every field of the filters
FiltersMalformed(doc) ==
    \/ doc.kind \in {"text", "null", "number"}
    \/ doc.kind = "object" /\ ~(FilterKeys \subseteq doc.has)

\* not JSON, or JSON that is not an object
WidthsMalformed(doc) == doc.kind \in {"text", "null", "number"}

\* C6: a record that is absent or malformed when the session starts leaves the
\* mounted component with the defaults of that record, and mount does not fail
C6_MalformedFallsBack ==
    lastOp = "mount" =>
      /\ (~Saved(loaded.filters) \/ FiltersMalformed(loaded.filters))
            => /\ phase = "mounted"
               /\ filters = InitialFilters(initialStageFilter)
               /\ searchTerm = <<>>
      /\ (~Saved(loaded.widths) \/ WidthsMalformed(loaded.widths))
            => /\ phase = "mounted"
               /\ columnWidths = WidthDoc("object", DefaultColumnWidths)


(***************************************************************************)
(* Properties of the resize gesture.                                       *)
(***************************************************************************)
\* C9: when mouse-up ends a resize session, the widths written to
\* 'deals-column-widths' are the widths in memory at that moment, the width
\* of the last pointer move included
C9_StoredWidthsAtMouseUp ==
    lastOp = "mouseUp" =>
      \A field \in DOMAIN DefaultColumnWidths :
        WidthOf(storedWidths, field) = WidthOf(columnWidths, field)

\* C10: a mouse-down on a resize handle while a session is active leaves the
\* active field, the start position and the start width as they are
C10_ResizeSessionExclusive ==
    [][(lastOp' = "mouseDown" /\ IsSome(isResizing))
         => UNCHANGED <<isResizing, startX, startWidth>>]_vars


(***************************************************************************)
(* Properties of the inline edit.                                          *)
(***************************************************************************)
\* the toasts of an edit that carry the title
ToastsTitled(e, title) == {k \in DOMAIN e.toasts : e.toasts[k].title = title}

\* the toast's description holds the name of the field
NamesField(toast, field) ==
    \E k \in DOMAIN toast.description : toast.description[k] = field

\* C11: an inline edit calls onUpdateDeal once; a rejected call shows one
\* 'Update failed' toast that names the edited field and no 'Deal updated'
\* toast, a fulfilled call shows one 'Deal updated' toast; the records,
\* filters, sort, page and selection stay as they were
C11_InlineEditOutcome ==
    \A i \in DOMAIN edits :
      LET e == edits[i] IN
      /\ e.calls = 1
      /\ e.engine = EngineState
      /\ e.settled = "pending" => e.toasts = <<>>
      /\ e.settled = "rejected" =>
            /\ Cardinality(ToastsTitled(e, "Update failed")) = 1
            /\ ToastsTitled(e, "Deal updated") = {}
            /\ \A k \in ToastsTitled(e, "Update failed") :
                 NamesField(e.toasts[k], e.field)
      /\ e.settled = "resolved" =>
            /\ Cardinality(ToastsTitled(e, "Deal updated")) = 1
            /\ ToastsTitled(e, "Update failed") = {}


(***************************************************************************)
(* Properties of the page reset.                                           *)
(***************************************************************************)
\* C12: every step that changes the filters, the search term or the lead
\* owner filter (advanced filter, quick search, dropdown, Clear All, restore
\* at mount) ends with currentPage = 1
C12_FilterChangeResetsPage ==
    [][(filters' # filters \/ searchTerm' # searchTerm
          \/ leadOwnerFilter' # leadOwnerFilter) => currentPage' = 1]_vars

\* an advanced-filter change made on page 2 has led to page 1
C12_Witness ==
    lastOp = "filters" /\ pageBefore = 2 /\ currentPage = 1

\* C13: every header click that changes the sort field or flips the
\* direction ends with currentPage = 1
C13_SortChangeResetsPage ==
    lastOp = "headerClick" => currentPage = 1

\* C14: totalPages is the least number of pages of itemsPerPage records that
\* hold the filtered list, and 1 when the filtered list is empty
C14_TotalPagesCeil ==
    LET n == Len(filteredAndSortedDeals) IN
    IF n = 0 THEN totalPages = 1
    ELSE /\ totalPages * itemsPerPage >= n
         /\ (totalPages - 1) * itemsPerPage < n


(***************************************************************************)
(* Properties of the column widths.                                        *)
(***************************************************************************)
\* C15: after mount has loaded a persisted width map, every known column has
\* its persisted width if the map holds one and its default width otherwise,
\* and the width state holds no key that is not a known column
C15_WidthsMergeOverDefaults ==
    (lastOp = "mount" /\ phase = "mounted" /\ loaded.widths.kind = "object") =>
      /\ DOMAIN MapOf(columnWidths) \subseteq DOMAIN DefaultColumnWidths
      /\ \A field \in DOMAIN DefaultColumnWidths :
           WidthOf(columnWidths, field) =
             IF field \in DOMAIN loaded.widths.map
               THEN loaded.widths.map[field]
               ELSE DefaultColumnWidths[field]

\* C16: once mounted, every column is at least 80 px wide, after the load
\* and after every resize gesture
C16_WidthAtLeastFloor ==
    phase = "mounted" =>
      \A field \in DOMAIN DefaultColumnWidths :
        WidthOf(columnWidths, field) >= 80


(***************************************************************************)
(* Properties of the numeric sort.                                         *)
(***************************************************************************)
\* the number the specification gives a numeric value: 0 when missing
ClaimedNumber(o) == IF o = {} THEN 0 ELSE CHOOSE n \in o : TRUE

\* C17: sorted by a numeric field, the output holds the input's records
\* ordered by value with a missing value counted as 0, records of equal
\* value (a missing one and a 0 included) in their input order
C17_NumericMissingIsZero ==
    (lastOp = "sort" /\ sortBy \in NumericSortFields) =>
      /\ Len(output) = Len(deals)
      /\ {output[p].id : p \in DOMAIN output} = {deals[i].id : i \in DOMAIN deals}
      /\ \A p \in DOMAIN output : \A q \in DOMAIN output :
           p < q =>
             LET x == ClaimedNumber(output[p][sortBy])
                 y == ClaimedNumber(output[q][sortBy])
             IN  /\ (sortOrder = "asc" => x <= y)
                 /\ (sortOrder = "desc" => x >= y)
                 /\ (x = y => output[p].id < output[q].id)

\* values [100, missing, 50] sorted ascending: missing, 50, 100
C17_Witness ==
    /\ lastOp = "sort"
    /\ sortBy = "total_contract_value"
    /\ sortOrder = "asc"
    /\ [i \in DOMAIN deals |-> deals[i].total_contract_value]
         = <<{100}, {}, {50}>>
    /\ [p \in DOMAIN output |-> output[p].id] = <<2, 3, 1>>


(***************************************************************************)
(* Properties of the filter predicate.                                     *)
(***************************************************************************)
CategoricalDimensions ==
    {"stages", "regions", "leadOwners", "priorities", "probabilities",
     "handoffStatuses"}

\* the test of one categorical dimension
DimensionHolds(dim, deal, f) ==
    CASE dim = "stages" -> matchesStages(deal, f)
      [] dim = "regions" -> matchesRegions(deal, f)
      [] dim = "leadOwners" -> matchesLeadOwners(deal, f)
      [] dim = "priorities" -> matchesPriorities(deal, f)
      [] dim = "probabilities" -> matchesProbabilities(deal, f)
      [] dim = "handoffStatuses" -> matchesHandoffStatuses(deal, f)

\* the predicate with one categorical dimension left out
PassesOmitting(dim, deal, term, owner, f) ==
    /\ matchesSearch(deal, term, f)
    /\ matchesLeadOwnerDropdown(deal, owner)
    /\ matchesProbabilityRange(deal, f)
    /\ \A d \in CategoricalDimensions \ {dim} : DimensionHolds(d, deal, f)

\* C18: a categorical dimension whose allowed-set is empty excludes no
\* record: the filtered list is the one the predicate without that dimension
\* gives
C18_EmptySetIsNoConstraint ==
    lastOp = "filter" =>
      \A dim \in CategoricalDimensions :
        filters[dim] = {} =>
          \A i \in DOMAIN deals :
            (\E p \in DOMAIN output : output[p] = deals[i])
              <=> PassesOmitting(dim, deals[i], searchTerm, leadOwnerFilter, filters)

\* a record with a region has passed a filter whose region set is empty while
\* the stage set is not
C18_Witness ==
    /\ lastOp = "filter"
    /\ filters.regions = {}
    /\ filters.stages # {}
    /\ Len(output) = 1
    /\ output[1].region # {}


\* the record's field of a categorical dimension
DimensionField(dim) ==
    CASE dim = "stages" -> "stage"
      [] dim = "regions" -> "region"
      [] dim = "leadOwners" -> "lead_owner"
      [] dim = "priorities" -> "priority"
      [] dim = "probabilities" -> "probability"
      [] dim = "handoffStatuses" -> "handoff_status"

SearchedFields ==
    {"deal_name", "project_name", "lead_name", "customer_name", "region"}

\* C19: a record that lacks the value of a categorical dimension is not in
\* the filtered list when that dimension's allowed-set is not empty, whatever
\* the set holds; in the search a missing text field counts as the empty
\* string
C19_MissingNeverMatches ==
    lastOp = "filter" =>
      \A i \in DOMAIN deals :
        /\ \A dim \in CategoricalDimensions :
             (deals[i][DimensionField(dim)] = {} /\ filters[dim] # {})
               => ~(\E p \in DOMAIN output : output[p] = deals[i])
        /\ matchesSearch(deals[i], searchTerm, filters)
             <=> \/ allSearchTerms(searchTerm, filters) = <<>>
                 \/ \E field \in SearchedFields :
                      includes(toLowerCase(OrEmpty(deals[i][field])),
                               allSearchTerms(searchTerm, filters))


\* the two search inputs taken together: one appended to the other
ConcatenatedTerm(term, f) == toLowerCase(term \o f.searchTerm)

\* C20: a record that meets every other condition is in the filtered list
\* iff the two search inputs taken together, compared without case, are
\* empty or are contained in one of deal_name, project_name, lead_name,
\* customer_name, region; a record holding the concatenation of two
\* non-empty inputs in one of these fields passes
C20_FreeTextCondition ==
    lastOp = "filter" =>
      \A i \in DOMAIN deals :
        (/\ matchesLeadOwnerDropdown(deals[i], leadOwnerFilter)
         /\ matchesProbabilityRange(deals[i], filters)
         /\ \A d \in CategoricalDimensions : DimensionHolds(d, deals[i], filters))
          => ((\E p \in DOMAIN output : output[p] = deals[i])
                <=> \/ ConcatenatedTerm(searchTerm, filters) = <<>>
                    \/ \E field \in SearchedFields :
                         includes(toLowerCase(OrEmpty(deals[i][field])),
                                  ConcatenatedTerm(searchTerm, filters)))


(***************************************************************************)
(* Properties of the pages.                                                *)
(***************************************************************************)
\* C21: for a page k in [1, totalPages] of a filtered and sorted sequence of
\* n records, page k holds exactly the records at positions
\* (k-1)*itemsPerPage+1 .. min(k*itemsPerPage, n), in order; every page but
\* the last is full and the last page ends at n, so the pages in page order
\* reproduce the sequence with no record duplicated or omitted
C21_PageHoldsItsPositions ==
    LET n == Len(filteredAndSortedDeals)
        k == currentPage
        first == (k - 1) * itemsPerPage + 1
        last == Min(k * itemsPerPage, n)
    IN  (phase = "mounted" /\ k >= 1 /\ k <= totalPages) =>
          /\ Len(paginatedDeals) = last - first + 1
          /\ \A i \in 1..Len(paginatedDeals) :
               paginatedDeals[i] = filteredAndSortedDeals[first + i - 1]
          /\ k < totalPages => Len(paginatedDeals) = itemsPerPage
          /\ k = totalPages => first + Len(paginatedDeals) - 1 = n

\* the second page of a list longer than one page is shown
C21_Witness ==
    /\ lastOp = "next"
    /\ currentPage = 2
    /\ Len(filteredAndSortedDeals) > itemsPerPage
    /\ Len(paginatedDeals) = Len(filteredAndSortedDeals) - itemsPerPage

(***************************************************************************)
(* Properties of the selection.                                            *)
(***************************************************************************)
\* C22: in every reachable state every selected id is the id of a record
\* rendered on the active page, also after a page change, a filter change
\* or a sort change made while ids are selected
C22_SelectionOnActivePage ==
    phase = "mounted" => selectedDeals \subseteq Ids(paginatedDeals)

\* C23: checking the header checkbox and then clearing the selection leaves
\* the selection empty, and two clicks in a row on the checkbox of the same
\* row (select then deselect, or deselect then select) leave the selection
\* as it was before the two clicks, whatever it was
C23_SelectionRoundTrips ==
    Len(recent) = 2 =>
      /\ (recent[1].op = "selectAll" /\ recent[2].op = "clearSelection")
           => selectedDeals = {}
      /\ (recent[1].op = "toggle" /\ recent[2].op = "toggle"
            /\ recent[1].id = recent[2].id)
           => selectedDeals = recent[1].before

\* the header checkbox was checked and the selection then cleared
SelectAllThenClear ==
    /\ Len(recent) = 2
    /\ recent[1].op = "selectAll" /\ recent[2].op = "clearSelection"
    /\ Cardinality(recent[2].before) > itemsPerPage

\* a row of a selection of several ids was deselected and selected again
C23_Witness ==
    /\ Len(recent) = 2
    /\ recent[1].op = "toggle" /\ recent[2].op = "toggle"
    /\ recent[1].id = recent[2].id
    /\ recent[1].id \in recent[1].before
    /\ Cardinality(recent[1].before) > 1

(***************************************************************************)
(* Properties of the pointer moves and of the end of a resize session.     *)
(***************************************************************************)
\* C24: every pointer move is handled during an active resize session, sets
\* the width of the session's column to max(80, startWidth + (pointerX -
\* startX)), a requested width below 80 giving exactly 80, and changes the
\* width of no other column; outside a session no move changes a width
C24_MoveSetsClampedWidth ==
    [][lastOp' = "mouseMove" =>
         /\ IsSome(isResizing)
         /\ \A f \in DOMAIN DefaultColumnWidths :
              WidthOf(columnWidths', f) =
                IF f = Val(isResizing)
                  THEN Max(minWidth, startWidth + (pointerX' - startX))
                  ELSE WidthOf(columnWidths, f)]_vars

\* a move asked for a width below 80 and the column got exactly 80
C24_Witness ==
    /\ lastOp = "mouseMove"
    /\ IsSome(isResizing)
    /\ startWidth + (pointerX - startX) < minWidth
    /\ WidthOf(columnWidths, Val(isResizing)) = minWidth

\* a mouse-down and the mouse-up right after it, with no pointer move between
\* them, leave every width as it was, clear the active field and leave the
\* stored widths equal to the widths in memory
SessionWithoutMove ==
    [][/\ lastOp' = "mouseDown" => columnWidths' = columnWidths
       /\ (lastOp = "mouseDown" /\ lastOp' = "mouseUp") =>
            /\ columnWidths' = columnWidths
            /\ isResizing' = None
            /\ \A f \in DOMAIN DefaultColumnWidths :
                 WidthOf(storedWidths', f) = WidthOf(columnWidths', f)]_vars

\* C25: a resize session that ends without a pointer move leaves every
\* width unchanged, clears the active field and leaves the stored widths
\* equal to the widths in memory; and after any session end no width in
\* memory differs from the stored one
C25_SessionEndIsConsistent ==
    [][/\ lastOp' = "mouseDown" => columnWidths' = columnWidths
       /\ lastOp' = "mouseUp" =>
            /\ isResizing' = None
            /\ lastOp = "mouseDown" => columnWidths' = columnWidths
            /\ \A f \in DOMAIN DefaultColumnWidths :
                 WidthOf(storedWidths', f) = WidthOf(columnWidths', f)]_vars

(***************************************************************************)
(* Properties of the filter as a whole.                                    *)
(***************************************************************************)
\* the positions of the input records that satisfy the filter predicate
PassingPositions ==
    {i \in DOMAIN deals : DealPasses(deals[i], searchTerm, leadOwnerFilter, filters)}

\* the p-th smallest member of a set of positions
NthOf(positions, p) ==
    CHOOSE i \in positions : Cardinality({j \in positions : j < i}) = p - 1

\* C26: the output of the filter holds exactly the input records that
\* satisfy the predicate, each once, in their input order; being fixed by
\* the records and the filter state, it is the same whenever these are the
\* same (stages a,a,b,c,a filtered by {a} give records 1, 2 and 5)
C26_OutputIsSubsequence ==
    lastOp = "filter" =>
      /\ Len(output) = Cardinality(PassingPositions)
      /\ \A p \in DOMAIN output : output[p] = deals[NthOf(PassingPositions, p)]

\* five records with stages a,a,b,c,a were filtered by stage {a}
C26_Witness ==
    /\ lastOp = "filter"
    /\ Len(deals) = 5
    /\ filters.stages = {<<"a">>}
    /\ searchTerm = <<>>
    /\ Len(output) = 3
    /\ output[1].id = 1 /\ output[2].id = 2 /\ output[3].id = 5

(***************************************************************************)
(* Properties of the notification handler.                                 *)
(***************************************************************************)
\* the outcomes with which a step of the handler fails
FailedOutcomes ==
    {<<"request body", "throws">>, <<"required fields", "missing">>,
     <<"recipient lookup", "error">>, <<"sender address", "none">>,
     <<"token exchange", "not configured">>, <<"token exchange", "rejected">>,
     <<"token exchange", "unreachable">>, <<"mail API", "rejected">>,
     <<"mail API", "unreachable">>}

Failed(e) == <<e.step, e.outcome>> \in FailedOutcomes

\* the response carries a JSON body with an error field and a status
\* outside 200..299
StructuredError(response) ==
    /\ response.type = "application/json"
    /\ \E pair \in response.body : pair[1] = "error"
    /\ response.status \notin 200..299

\* C27: the handler returns one response per request, none before it is
\* done; a step that fails (required field missing, recipient lookup, sender
\* address, credentials or token exchange, mail API) is the last step and
\* the response is a structured error; no step runs twice, so the mail call
\* is made at most once and nothing is retried; and the mail call is made
\* only after the required fields, the recipient lookup, the preferences,
\* the sender address and the token exchange all succeeded
C27_FailureIsStructuredError ==
    /\ Len(responses) = (IF pc = "done" THEN 1 ELSE 0)
    /\ \A k \in DOMAIN trace :
         Failed(trace[k]) =>
           /\ k = Len(trace)
           /\ pc = "done"
           /\ StructuredError(responses[1])
    /\ \A j, k \in DOMAIN trace : trace[j].step = trace[k].step => j = k
    /\ \A k \in DOMAIN trace :
         trace[k].step = "mail API" =>
           /\ \A j \in 1..(k - 1) : ~Failed(trace[j])
           /\ {<<trace[j].step, trace[j].outcome>> : j \in 1..(k - 1)}
                \in {{<<"required fields", "present">>,
                      <<"recipient lookup", "found">>,
                      <<"preferences", p>>, <<"sender address", s>>,
                      <<"token exchange", "token">>} :
                        p \in {"none", "enabled"}, s \in {"configured", "found"}}

\* the mail API rejected the one mail call and the handler answered 500
\* with an error body
C27_Witness ==
    /\ pc = "done"
    /\ trace # <<>>
    /\ trace[Len(trace)] = [step |-> "mail API", outcome |-> "rejected"]
    /\ responses = <<[status |-> 500, type |-> "application/json",
                      body |-> ErrorBody("Failed to send email via Graph API")]>>

(***************************************************************************)
(* Properties of the initial stage filter and of Clear All.                *)
(***************************************************************************)
\* C28: when the caller supplies an initial stage filter other than 'all',
\* then after the mount effects, the restore from 'deals-filters' included,
\* the allowed stages are exactly that one stage, whatever was stored
C28_InitialStageWins ==
    (lastOp = "mount" /\ phase = "mounted" /\ initialStageFilter # ALL)
      => filters.stages = {initialStageFilter}

\* C29: right after Clear All no filter constrains the list, the quick
\* search and the lead owner dropdown included, and the filtered list holds
\* every record of the collection
C29_ClearAllShowsEverything ==
    lastOp = "clearAll" =>
      /\ filters = ClearedFilters
      /\ searchTerm = <<>>
      /\ leadOwnerFilter = ALL
      /\ Len(filteredAndSortedDeals) = Len(deals)
      /\ Ids(filteredAndSortedDeals) = Ids(deals)

\* C30: in every reachable state the header checkbox is shown checked iff
\* the current page is not empty and every record on it is selected
C30_HeaderCheckboxMeansPageSelected ==
    phase = "mounted" =>
      (HeaderChecked <=> (/\ Len(paginatedDeals) > 0
                          /\ Ids(paginatedDeals) \subseteq selectedDeals))

(***************************************************************************)
(* Properties of the bulk delete.                                          *)
(***************************************************************************)
\* C31: a bulk delete with a non-empty selection calls onDeleteDeals once,
\* with exactly the selected ids, shows one notice that tells the number of
\* selected ids, and leaves the selection empty; with an empty selection it
\* makes no call, shows no notice and changes no state of the list
C31_BulkDeleteActsOnSelection ==
    [][lastOp' = "bulkDelete" =>
         IF selectedDeals = {}
           THEN /\ effects' = <<>>
                /\ UNCHANGED <<deals, searchTerm, leadOwnerFilter, filters,
                               sortBy, sortOrder, selectedDeals, currentPage,
                               deleteDialogOpen, dealToDelete, storedFilters,
                               view>>
           ELSE /\ {k \in DOMAIN effects' : effects'[k].kind = "onDeleteDeals"} = {1}
                /\ effects'[1].ids = selectedDeals
                /\ {k \in DOMAIN effects' : effects'[k].kind = "toast"} = {2}
                /\ effects'[2].description
                     = DeletedNotice(Cardinality(selectedDeals))
                /\ selectedDeals' = {}]_vars

\* a bulk delete of a selection that reaches beyond the page shown has run
C31_Witness ==
    /\ lastOp = "bulkDelete"
    /\ Len(effects) = 2
    /\ Cardinality(effects[1].ids) > itemsPerPage
    /\ selectedDeals = {}
    /\ Len(deals) = 0

(***************************************************************************)
(* Properties of the calculator.                                           *)
(***************************************************************************)
\* C32: an operator key pressed while the calculator waits for an operand
\* with an operator pending only replaces the pending operator: the display
\* and the stored previous value stay as they were
C32_OperatorKeyOnlyReplacesOperator ==
    [][(lastOp' = "performOperation" /\ waitingForOperand /\ IsSome(operator))
         => (display' = display /\ previousValue' = previousValue)]_vars


================================================================================
